---------------------------- MODULE Spec2Model ----------------------------
(***************************************************************************)
(* BookForge: the manuscript line classifier, structural parser, chapter   *)
(* title clean-up and document rendering loop of api/docx_generator.py,    *)
(* and the page-count estimator and cover and page geometry of             *)
(* api/bookforge.py.                                                       *)
(*                                                                         *)
(* Text is modelled character by character: a Python str is a sequence of  *)
(* one-character strings, so that strip(), upper(), split(), the regular   *)
(* expressions and the whitespace collapse are computed, not assumed.      *)
(***************************************************************************)
EXTENDS Integers, Sequences, FiniteSets, TLC

VARIABLES
    line, result,                       \* detect_content_type: argument, returned tuple
    content, lines, idx, blocks,        \* parse_manuscript: argument and locals
    current_paragraph_lines, blank_count, pc,
    file, font_size_pt, pages, called,  \* guess_pages_from_wordcount: file, argument, returned value
    trim_key, page_count, paper, bleed, \* cover and page geometry: arguments,
    layout_call, layout_out,            \*   the function called and what it returned
    manuscript, config, docx_blocks,    \* create_professional_docx: arguments and locals
    block_i, doc, chapter_count, is_first_paragraph_in_chapter, docx_pc,
    margins,                            \* render_base_css: the margins of cfg
    txt_text, txt_lines, txt_i, html_lines, \* txt_to_html_with_chapters: argument and locals
    in_paragraph, txt_chapter_count, skip_next, txt_pc,
    html_in, body_match, conv_lines, conv_i, \* detect_and_convert_chapters_in_html:
    processed_lines, conv_chapter_count,     \*   argument, locals, returned string
    html_out, conv_pc,
    candidate, verdict,                 \* the two chapter-heading detectors on one line
    calls,                              \* two parse_manuscript invocations in progress
    projects, next_id, files, threads,  \* the API server: project store, disk, analysis threads,
    response                            \*   and the response to the last request

classifyVars == <<line, result>>
parseVars    == <<content, lines, idx, blocks, current_paragraph_lines, blank_count, pc>>
pagesVars    == <<file, font_size_pt, pages, called>>
layoutVars   == <<trim_key, page_count, paper, bleed, margins, layout_call, layout_out>>
txtVars      == <<txt_text, txt_lines, txt_i, html_lines, in_paragraph, txt_chapter_count,
                  skip_next, txt_pc>>
convVars     == <<html_in, body_match, conv_lines, conv_i, processed_lines,
                  conv_chapter_count, html_out, conv_pc>>
detectVars   == <<candidate, verdict>>
callsVars    == <<calls>>
serverVars   == <<projects, next_id, files, threads, response>>
docxVars     == <<manuscript, config, docx_blocks, block_i, doc, chapter_count,
                  is_first_paragraph_in_chapter, docx_pc>>
vars         == <<line, result, content, lines, idx, blocks,
                  current_paragraph_lines, blank_count, pc,
                  file, font_size_pt, pages, called,
                  trim_key, page_count, paper, bleed, layout_call, layout_out,
                  manuscript, config, docx_blocks, block_i, doc, chapter_count,
                  is_first_paragraph_in_chapter, docx_pc,
                  margins,
                  txt_text, txt_lines, txt_i, html_lines, in_paragraph, txt_chapter_count,
                  skip_next, txt_pc,
                  html_in, processed_lines, conv_pc,
                  candidate, verdict,
                  calls,
                  projects, next_id, files, threads, response>>

(***************************************************************************)
(* Bounds of the checked input space.                                      *)
(***************************************************************************)
MaxLines  == 3      \* manuscripts of at most this many lines
MaxPad    == 2      \* heading candidates are padded by 0..MaxPad filler characters, or past the threshold
MaxChunks == 36     \* estimator texts repeat a unit 0, 1 or 25 * k times, k in 1..MaxChunks
MaxPages  == 520    \* geometry is computed for page counts 0..MaxPages
MaxDocLines == 3    \* rendered manuscripts have at most this many lines
MaxTxtLines == 3    \* plain texts converted to HTML have at most this many lines
MaxCallLines == 2   \* manuscripts of the two interleaved parser invocations

(***************************************************************************)
(* Characters and the str methods the code uses.                           *)
(***************************************************************************)
UpperAlpha == <<"A", "B", "C", "D", "E", "F", "G", "H", "I", "J", "K", "L", "M",
                "N", "O", "P", "Q", "R", "S", "T", "U", "V", "W", "X", "Y", "Z">>
LowerAlpha == <<"a", "b", "c", "d", "e", "f", "g", "h", "i", "j", "k", "l", "m",
                "n", "o", "p", "q", "r", "s", "t", "u", "v", "w", "x", "y", "z">>
UpperSet == {UpperAlpha[i] : i \in 1..26}
LowerSet == {LowerAlpha[i] : i \in 1..26}
DigitSet == {"0", "1", "2", "3", "4", "5", "6", "7", "8", "9"}
SpaceSet == {" ", "\t", "\n", "\r"}              \* \s and str.isspace()
WordSet  == UpperSet \cup LowerSet \cup DigitSet \cup {"_"}     \* \w

Min(S) == CHOOSE x \in S : \A y \in S : x <= y

ToUpper == [c \in LowerSet |-> UpperAlpha[CHOOSE i \in 1..26 : LowerAlpha[i] = c]]
ToLower == [c \in UpperSet |-> LowerAlpha[CHOOSE i \in 1..26 : UpperAlpha[i] = c]]
UpperChar(c) == IF c \in LowerSet THEN ToUpper[c] ELSE c
LowerChar(c) == IF c \in UpperSet THEN ToLower[c] ELSE c
Upper(s) == [i \in 1..Len(s) |-> UpperChar(s[i])]        \* str.upper()
Lower(s) == [i \in 1..Len(s) |-> LowerChar(s[i])]        \* str.lower()

\* str.strip(): drop leading and trailing whitespace
Strip(s) ==
    LET ink == {i \in 1..Len(s) : s[i] \notin SpaceSet}
    IN  IF ink = {} THEN <<>>
        ELSE LET lo == Min(ink)
                 hi == CHOOSE x \in ink : \A y \in ink : y <= x
             IN  SubSeq(s, lo, hi)

\* sep.join(parts)
RECURSIVE Join(_, _)
Join(sep, parts) ==
    IF Len(parts) = 0 THEN <<>>
    ELSE IF Len(parts) = 1 THEN parts[1]
    ELSE parts[1] \o sep \o Join(sep, Tail(parts))

\* str.split('\n'): the pieces between newlines, empty pieces kept
RECURSIVE SplitNL(_)
SplitNL(s) ==
    LET nl == {i \in 1..Len(s) : s[i] = "\n"}
    IN  IF nl = {} THEN <<s>>
        ELSE LET k == Min(nl)
             IN  <<SubSeq(s, 1, k - 1)>> \o SplitNL(SubSeq(s, k + 1, Len(s)))

\* re.sub(r'\s+', ' ', s): every maximal run of whitespace becomes one space
RECURSIVE CollapseWs(_)
CollapseWs(s) ==
    IF Len(s) = 0 THEN <<>>
    ELSE IF s[1] \in SpaceSet
         THEN LET rest == {i \in 1..Len(s) : s[i] \notin SpaceSet}
              IN  IF rest = {} THEN <<" ">>
                  ELSE <<" ">> \o CollapseWs(SubSeq(s, Min(rest), Len(s)))
         ELSE <<s[1]>> \o CollapseWs(Tail(s))

(***************************************************************************)
(* Regular expressions.  Every pattern of the program is a concatenation   *)
(* of quantified character classes, possibly ended by '$'; re.match tries  *)
(* the pattern at position 1 and succeeds iff some choice of repetition    *)
(* counts matches.                                                         *)
(***************************************************************************)
Rep(cls, lo, hi) == [k |-> "cls", cls |-> cls, lo |-> lo, hi |-> hi, unb |-> FALSE]
Many(cls, lo)    == [k |-> "cls", cls |-> cls, lo |-> lo, hi |-> lo, unb |-> TRUE]
Eol              == [k |-> "eol", cls |-> {}, lo |-> 0, hi |-> 0, unb |-> FALSE]
Lit(s)           == [i \in 1..Len(s) |-> Rep({s[i]}, 1, 1)]

\* number of consecutive characters of s from pos on that belong to cls
RunLen(cls, s, pos) ==
    IF pos > Len(s) \/ s[pos] \notin cls THEN 0
    ELSE LET bad == {j \in pos..Len(s) : s[j] \notin cls}
         IN  IF bad = {} THEN Len(s) - pos + 1 ELSE Min(bad) - pos

RECURSIVE MatchFrom(_, _, _, _)
MatchFrom(p, i, s, pos) ==
    IF i > Len(p) THEN TRUE
    ELSE IF p[i].k = "eol"
         THEN /\ \/ pos = Len(s) + 1
                 \/ pos = Len(s) /\ s[pos] = "\n"
              /\ MatchFrom(p, i + 1, s, pos)
         ELSE LET run == RunLen(p[i].cls, s, pos)
                  top == IF p[i].unb \/ run < p[i].hi THEN run ELSE p[i].hi
              IN  \E n \in p[i].lo..top : MatchFrom(p, i + 1, s, pos + n)

re_match(p, s) == MatchFrom(p, 1, s, 1)

(***************************************************************************)
(* The words of the pattern tables.                                        *)
(***************************************************************************)
sCHAPTER   == <<"C", "H", "A", "P", "T", "E", "R">>
sPART      == <<"P", "A", "R", "T">>
sPROLOGUE  == <<"P", "R", "O", "L", "O", "G", "U", "E">>
sEPILOGUE  == <<"E", "P", "I", "L", "O", "G", "U", "E">>
sINTERLUDE == <<"I", "N", "T", "E", "R", "L", "U", "D", "E">>
sACT       == <<"A", "C", "T">>
sDEDICATION      == <<"D", "E", "D", "I", "C", "A", "T", "I", "O", "N">>
sACKNOWLEDGMENT  == <<"A", "C", "K", "N", "O", "W", "L", "E", "D", "G", "M", "E", "N", "T">>
sACKNOWLEDGEMENT == <<"A", "C", "K", "N", "O", "W", "L", "E", "D", "G", "E", "M", "E", "N", "T">>
sPREFACE      == <<"P", "R", "E", "F", "A", "C", "E">>
sFOREWORD     == <<"F", "O", "R", "E", "W", "O", "R", "D">>
sINTRODUCTION == <<"I", "N", "T", "R", "O", "D", "U", "C", "T", "I", "O", "N">>
sNOTE   == <<"N", "O", "T", "E">>
sTO     == <<"T", "O">>
sREADER == <<"R", "E", "A", "D", "E", "R">>
sAUTHOR == <<"A", "U", "T", "H", "O", "R">>
sABOUT  == <<"A", "B", "O", "U", "T">>
sTHE    == <<"T", "H", "E">>
sALSO   == <<"A", "L", "S", "O">>
sBY     == <<"B", "Y">>
sBIBLIOGRAPHY == <<"B", "I", "B", "L", "I", "O", "G", "R", "A", "P", "H", "Y">>
sGLOSSARY  == <<"G", "L", "O", "S", "S", "A", "R", "Y">>
sINDEX     == <<"I", "N", "D", "E", "X">>
sNOTES     == <<"N", "O", "T", "E", "S">>
sAPPENDIX  == <<"A", "P", "P", "E", "N", "D", "I", "X">>
sAFTERWORD == <<"A", "F", "T", "E", "R", "W", "O", "R", "D">>
sBONUS     == <<"B", "O", "N", "U", "S">>

Ws1 == <<Many(SpaceSet, 1)>>                                   \* \s+
WordSpaceDash == WordSet \cup SpaceSet \cup {"-"}              \* [\w\s\-]

CHAPTER_PATTERNS ==
    << Lit(sCHAPTER) \o Ws1 \o <<Many(UpperSet, 1), Many(WordSpaceDash, 0)>> \o Lit(<<":">>),
       Lit(sCHAPTER) \o Ws1 \o <<Many(DigitSet, 1)>> \o Lit(<<":">>),
       Lit(sCHAPTER) \o Ws1 \o <<Many(UpperSet, 1), Many(WordSpaceDash, 0), Eol>>,
       Lit(sCHAPTER) \o Ws1 \o <<Many(DigitSet, 1), Eol>>,
       Lit(sPART) \o Ws1 \o <<Many({"I", "V", "X"}, 1)>>,
       Lit(sPART) \o Ws1 \o <<Many(DigitSet, 1)>>,
       Lit(sPROLOGUE),
       Lit(sEPILOGUE),
       Lit(sINTERLUDE),
       Lit(sACT) \o Ws1 \o <<Many({"I", "V", "X"} \cup DigitSet, 1)>> >>

FRONT_MATTER_PATTERNS ==
    << Lit(sDEDICATION) \o <<Eol>>,
       Lit(sACKNOWLEDGMENT) \o <<Rep({"S"}, 0, 1), Eol>>,
       Lit(sACKNOWLEDGEMENT) \o <<Rep({"S"}, 0, 1), Eol>>,
       Lit(sPREFACE) \o <<Eol>>,
       Lit(sFOREWORD) \o <<Eol>>,
       Lit(sINTRODUCTION) \o <<Eol>>,
       Lit(sNOTE) \o Ws1 \o Lit(sTO) \o Ws1 \o Lit(sREADER),
       Lit(sAUTHOR) \o <<Rep({"'", "S"}, 0, 1)>> \o Ws1 \o Lit(sNOTE) >>

BACK_MATTER_PATTERNS ==
    << Lit(sABOUT) \o Ws1 \o Lit(sTHE) \o Ws1 \o Lit(sAUTHOR),
       Lit(sALSO) \o Ws1 \o Lit(sBY),
       Lit(sBIBLIOGRAPHY),
       Lit(sGLOSSARY),
       Lit(sINDEX) \o <<Eol>>,
       Lit(sNOTES) \o <<Eol>>,
       Lit(sAPPENDIX),
       Lit(sAFTERWORD),
       Lit(sBONUS) >>

\* r'^[\*\-\~\#]{3,}$'
ORNAMENT_PATTERN == <<Many({"*", "-", "~", "#"}, 3), Eol>>
\* ['***', '* * *', '---', '~~~']
ORNAMENT_LITERALS ==
    { <<"*", "*", "*">>, <<"*", " ", "*", " ", "*">>, <<"-", "-", "-">>, <<"~", "~", "~">> }

\* for pattern in patterns: if re.match(pattern, s): ...
MatchesAny(patterns, s) == \E i \in 1..Len(patterns) : re_match(patterns[i], s)

(***************************************************************************)
(* ContentType, ContentBlock and detect_content_type.                      *)
(***************************************************************************)
CHAPTER_HEADING      == "chapter_heading"
FRONT_MATTER_HEADING == "front_matter_heading"
BACK_MATTER_HEADING  == "back_matter_heading"
PARAGRAPH            == "paragraph"
SCENE_BREAK          == "scene_break"
BLANK                == "blank"
ContentType == {"title", CHAPTER_HEADING, "section_heading", FRONT_MATTER_HEADING,
                BACK_MATTER_HEADING, PARAGRAPH, SCENE_BREAK, BLANK}

\* ContentBlock(content_type, text, level=1)
DefaultLevel == 1
ContentBlock(content_type, text, level) ==
    [content_type |-> content_type, text |-> text, level |-> level]

IsOrnament(stripped) ==
    re_match(ORNAMENT_PATTERN, stripped) \/ stripped \in ORNAMENT_LITERALS

\* the same with the list of literal ornaments forgotten
detect_content_type_regex_only(l) ==
    LET stripped == Strip(l)
        upper    == Upper(stripped)
    IN  IF stripped = <<>> THEN <<BLANK, 0>>
        ELSE IF re_match(ORNAMENT_PATTERN, stripped) THEN <<SCENE_BREAK, 0>>
        ELSE IF MatchesAny(CHAPTER_PATTERNS, upper) THEN <<CHAPTER_HEADING, 1>>
        ELSE IF MatchesAny(FRONT_MATTER_PATTERNS, upper) THEN <<FRONT_MATTER_HEADING, 2>>
        ELSE IF MatchesAny(BACK_MATTER_PATTERNS, upper) THEN <<BACK_MATTER_HEADING, 2>>
        ELSE <<PARAGRAPH, 0>>

detect_content_type(l) ==
    LET stripped == Strip(l)
        upper    == Upper(stripped)
    IN  IF stripped = <<>> THEN <<BLANK, 0>>
        ELSE IF IsOrnament(stripped) THEN <<SCENE_BREAK, 0>>
        ELSE IF MatchesAny(CHAPTER_PATTERNS, upper) THEN <<CHAPTER_HEADING, 1>>
        ELSE IF MatchesAny(FRONT_MATTER_PATTERNS, upper) THEN <<FRONT_MATTER_HEADING, 2>>
        ELSE IF MatchesAny(BACK_MATTER_PATTERNS, upper) THEN <<BACK_MATTER_HEADING, 2>>
        ELSE <<PARAGRAPH, 0>>

(***************************************************************************)
(* parse_manuscript.                                                       *)
(***************************************************************************)
\* flush_paragraph() that forgets to empty the buffer
flush_paragraph_keep(bs, cpl) ==
    IF cpl # <<>>
    THEN LET text == Strip(CollapseWs(Join(<<" ">>, cpl)))
         IN  [blocks |-> IF text # <<>>
                         THEN Append(bs, ContentBlock(PARAGRAPH, text, DefaultLevel))
                         ELSE bs,
              current_paragraph_lines |-> cpl]
    ELSE [blocks |-> bs, current_paragraph_lines |-> cpl]

\* flush_paragraph() without its two emptiness guards
flush_paragraph_unguarded(bs, cpl) ==
    [blocks |-> Append(bs, ContentBlock(PARAGRAPH,
                                        Strip(CollapseWs(Join(<<" ">>, cpl))),
                                        DefaultLevel)),
     current_paragraph_lines |-> <<>>]

\* flush_paragraph(): the closure over blocks and current_paragraph_lines,
\* as a function from their values before to their values after
flush_paragraph(bs, cpl) ==
    IF cpl # <<>>
    THEN LET text == Strip(CollapseWs(Join(<<" ">>, cpl)))
         IN  [blocks |-> IF text # <<>>
                         THEN Append(bs, ContentBlock(PARAGRAPH, text, DefaultLevel))
                         ELSE bs,
              current_paragraph_lines |-> <<>>]
    ELSE [blocks |-> bs, current_paragraph_lines |-> cpl]

HeadingKinds == {CHAPTER_HEADING, FRONT_MATTER_HEADING, BACK_MATTER_HEADING, SCENE_BREAK}

\* the loop body with the flush before a heading block forgotten
parse_line_noflush(ln, bs, cpl, bc) ==
    LET stripped == Strip(ln)
        ct       == detect_content_type(stripped)
        flushed  == flush_paragraph(bs, cpl)
    IN  IF ct[1] = BLANK
        THEN IF bc + 1 >= 3 /\ cpl # <<>>
             THEN [blocks |-> Append(flushed.blocks, ContentBlock(SCENE_BREAK, <<>>, DefaultLevel)),
                   current_paragraph_lines |-> flushed.current_paragraph_lines,
                   blank_count |-> bc + 1]
             ELSE IF bc + 1 >= 1
             THEN [blocks |-> flushed.blocks,
                   current_paragraph_lines |-> flushed.current_paragraph_lines,
                   blank_count |-> bc + 1]
             ELSE [blocks |-> bs, current_paragraph_lines |-> cpl, blank_count |-> bc + 1]
        ELSE IF ct[1] \in HeadingKinds
             THEN [blocks |-> Append(bs, ContentBlock(ct[1], stripped, ct[2])),
                   current_paragraph_lines |-> cpl,
                   blank_count |-> 0]
             ELSE [blocks |-> bs,
                   current_paragraph_lines |-> Append(cpl, stripped),
                   blank_count |-> 0]

\* the loop body storing the unstripped line in a heading block
parse_line_rawtext(ln, bs, cpl, bc) ==
    LET stripped == Strip(ln)
        ct       == detect_content_type(stripped)
        flushed  == flush_paragraph(bs, cpl)
    IN  IF ct[1] = BLANK
        THEN IF bc + 1 >= 3 /\ cpl # <<>>
             THEN [blocks |-> Append(flushed.blocks, ContentBlock(SCENE_BREAK, <<>>, DefaultLevel)),
                   current_paragraph_lines |-> flushed.current_paragraph_lines,
                   blank_count |-> bc + 1]
             ELSE IF bc + 1 >= 1
             THEN [blocks |-> flushed.blocks,
                   current_paragraph_lines |-> flushed.current_paragraph_lines,
                   blank_count |-> bc + 1]
             ELSE [blocks |-> bs, current_paragraph_lines |-> cpl, blank_count |-> bc + 1]
        ELSE IF ct[1] \in HeadingKinds
             THEN [blocks |-> Append(flushed.blocks, ContentBlock(ct[1], ln, ct[2])),
                   current_paragraph_lines |-> flushed.current_paragraph_lines,
                   blank_count |-> 0]
             ELSE [blocks |-> bs,
                   current_paragraph_lines |-> Append(cpl, stripped),
                   blank_count |-> 0]

\* one iteration of "for line in lines", from the locals before to the locals after
parse_line(ln, bs, cpl, bc) ==
    LET stripped == Strip(ln)
        ct       == detect_content_type(stripped)
        flushed  == flush_paragraph(bs, cpl)
    IN  IF ct[1] = BLANK
        THEN IF bc + 1 >= 3 /\ cpl # <<>>
             THEN [blocks |-> Append(flushed.blocks, ContentBlock(SCENE_BREAK, <<>>, DefaultLevel)),
                   current_paragraph_lines |-> flushed.current_paragraph_lines,
                   blank_count |-> bc + 1]
             ELSE IF bc + 1 >= 1
             THEN [blocks |-> flushed.blocks,
                   current_paragraph_lines |-> flushed.current_paragraph_lines,
                   blank_count |-> bc + 1]
             ELSE [blocks |-> bs, current_paragraph_lines |-> cpl, blank_count |-> bc + 1]
        ELSE IF ct[1] \in HeadingKinds
             THEN [blocks |-> Append(flushed.blocks, ContentBlock(ct[1], stripped, ct[2])),
                   current_paragraph_lines |-> flushed.current_paragraph_lines,
                   blank_count |-> 0]
             ELSE [blocks |-> bs,
                   current_paragraph_lines |-> Append(cpl, stripped),
                   blank_count |-> 0]

\* Optional[int]: None or an int
None    == [some |-> FALSE, val |-> 0]
Some(n) == [some |-> TRUE, val |-> n]
\* detect_content_type has not returned yet
NoResult == <<"not returned", 0>>

\* lines = content.split('\n'); blocks = []; current_paragraph_lines = []; blank_count = 0
ParseStart ==
    /\ pc = "start"
    /\ lines' = SplitNL(content)
    /\ blocks' = <<>>
    /\ current_paragraph_lines' = <<>>
    /\ blank_count' = 0
    /\ idx' = 1
    /\ pc' = "loop"
    /\ UNCHANGED <<content, classifyVars, pagesVars, layoutVars, docxVars,
                   txtVars, convVars, detectVars, callsVars, serverVars>>

\* the body of the for loop, for the next line
ParseLine ==
    /\ pc = "loop"
    /\ idx <= Len(lines)
    /\ LET after == parse_line(lines[idx], blocks, current_paragraph_lines, blank_count)
       IN  /\ blocks' = after.blocks
           /\ current_paragraph_lines' = after.current_paragraph_lines
           /\ blank_count' = after.blank_count
    /\ idx' = idx + 1
    /\ UNCHANGED <<content, lines, pc, classifyVars, pagesVars, layoutVars, docxVars,
                   txtVars, convVars, detectVars, callsVars, serverVars>>

\* after the loop: flush_paragraph(); return blocks
ParseFinish ==
    /\ pc = "loop"
    /\ idx > Len(lines)
    /\ LET after == flush_paragraph(blocks, current_paragraph_lines)
       IN  /\ blocks' = after.blocks
           /\ current_paragraph_lines' = after.current_paragraph_lines
    /\ pc' = "done"
    /\ UNCHANGED <<content, lines, idx, blank_count, classifyVars, pagesVars, layoutVars, docxVars,
                   txtVars, convVars, detectVars, callsVars, serverVars>>

(***************************************************************************)
(* Manuscripts: every sequence of at most MaxLines lines drawn from a      *)
(* catalog with one line of each kind (two of prose, two blank), plus the  *)
(* manuscript of the specification's worked example.                       *)
(***************************************************************************)
LineCatalog ==
    { <<>>,
      <<" ">>,
      <<"\t", "a", " ", " ", "b", " ">>,
      <<"c", " ", "d", ".">>,
      <<"C", "H", "A", "P", "T", "E", "R", " ", "O", "N", "E">>,
      <<"*", " ", "*", " ", "*", " ">>,
      <<" ", "D", "e", "d", "i", "c", "a", "t", "i", "o", "n">>,
      <<"N", "O", "T", "E", "S">> }

ExampleLines ==
    << <<"C", "H", "A", "P", "T", "E", "R", " ", "O", "N", "E">>,
       <<>>,
       <<"I", "t", " ", "w", "a", "s", " ", "a", " ", "d", "a", "r", "k", " ", "n", "i", "g", "h", "t", ".">>,
       <<>>, <<>>, <<>>,
       <<"S", "h", "e", " ", "n", "e", "v", "e", "r", " ", "r", "e", "t", "u", "r", "n", "e", "d", ".">> >>
ExampleContent == Join(<<"\n">>, ExampleLines)

Manuscripts ==
    {Join(<<"\n">>, ls) : ls \in UNION {[1..n -> LineCatalog] : n \in 0..MaxLines}}
        \cup {ExampleContent}

IdleClassify == line = <<>> /\ result = NoResult
IdleParse ==
    /\ content = <<>> /\ lines = <<>> /\ idx = 1 /\ blocks = <<>>
    /\ current_paragraph_lines = <<>> /\ blank_count = 0 /\ pc = "idle"
IdlePages ==
    /\ file = [readable |-> FALSE, txt |-> <<>>] /\ font_size_pt = 0
    /\ pages = None /\ called = "idle"
NoMargins == [top_margin_in |-> 0, bottom_margin_in |-> 0, gutter_in |-> 0, outer_margin_in |-> 0]
NoDimensions ==
    [raised |-> "", width |-> 0, height |-> 0, spine |-> 0, gutter |-> 0, margins |-> NoMargins]
IdleLayout ==
    /\ trim_key = "" /\ page_count = 0 /\ paper = "" /\ bleed = FALSE
    /\ margins = NoMargins
    /\ layout_call = "idle" /\ layout_out = NoDimensions
\* DocxConfig(title): the fields the document body is built from, at their defaults
DocxConfig(title) ==
    [title |-> title, author |-> <<>>, subtitle |-> <<>>,
     include_title_page |-> TRUE, include_copyright |-> TRUE,
     copyright_year |-> <<>>, copyright_holder |-> <<>>,
     include_dedication |-> FALSE, dedication_text |-> <<>>,
     include_about_author |-> FALSE, about_author_text |-> <<>>,
     scene_break_symbol |-> <<"*", " ", "*", " ", "*">>]
IdleDocx ==
    /\ manuscript = <<>>
    /\ config = DocxConfig(<<>>)
    /\ docx_blocks = <<>> /\ block_i = 0 /\ doc = <<>> /\ chapter_count = 0
    /\ is_first_paragraph_in_chapter = FALSE /\ docx_pc = "idle"
IdleTxt ==
    /\ txt_text = <<>> /\ txt_lines = <<>> /\ txt_i = 0 /\ html_lines = <<>>
    /\ in_paragraph = FALSE /\ txt_chapter_count = 0 /\ skip_next = FALSE
    /\ txt_pc = "idle"
NoMatch == [found |-> FALSE, start |-> 0, end |-> 0]
IdleConv ==
    /\ html_in = <<>> /\ body_match = NoMatch /\ conv_lines = <<>> /\ conv_i = 0
    /\ processed_lines = <<>> /\ conv_chapter_count = 0 /\ html_out = <<>>
    /\ conv_pc = "idle"
IdleDetect ==
    /\ candidate = <<>>
    /\ verdict = [called |-> FALSE, bookforge |-> FALSE, document_processor |-> FALSE]
IdleCalls == calls = <<>>
IdleServer ==
    /\ projects = <<>> /\ next_id = 0 /\ files = <<>> /\ threads = {}
    /\ response = [request |-> "none", id |-> 0, code |-> 0, file |-> ""]
IdleRest == IdleTxt /\ IdleConv /\ IdleDetect /\ IdleCalls /\ IdleServer

Init ==
    /\ content \in Manuscripts
    /\ lines = <<>> /\ idx = 1 /\ blocks = <<>>
    /\ current_paragraph_lines = <<>> /\ blank_count = 0
    /\ pc = "start"
    /\ IdleClassify /\ IdlePages /\ IdleLayout /\ IdleDocx /\ IdleRest

Next == ParseStart \/ ParseLine \/ ParseFinish

Spec == Init /\ [][Next]_vars

(***************************************************************************)
(* Lines given to detect_content_type: sample lines of every kind, in      *)
(* three letter cases, bare or surrounded by whitespace, and followed by   *)
(* 0..MaxPad filler characters or by enough of them to pass the heading    *)
(* length threshold of the other two detectors.                            *)
(***************************************************************************)
HeadingMaxLen == 200

ChapterSamples ==
    { <<"C", "H", "A", "P", "T", "E", "R">>,
      <<"C", "H", "A", "P", "T", "E", "R", " ", "O", "N", "E">>,
      <<"C", "H", "A", "P", "T", "E", "R", " ", "1">>,
      <<"C", "H", "A", "P", "T", "E", "R", " ", "O", "N", "E", ":", " ", "T", "h", "e", " ", "B", "e", "g", "i", "n", "n", "i", "n", "g">>,
      <<"C", "H", "A", "P", "T", "E", "R", " ", "1", ":", " ", "x">>,
      <<"C", "H", "A", "P", "T", "E", "R", " ", "1", " ", "x">>,
      <<"C", "H", "A", "P", "T", "E", "R", " ", "T", "W", "E", "N", "T", "Y", "-", "O", "N", "E", ":">>,
      <<"P", "A", "R", "T", " ", "I", "V">>,
      <<"P", "A", "R", "T", " ", "2">>,
      <<"P", "A", "R", "T">>,
      <<"P", "R", "O", "L", "O", "G", "U", "E">>,
      <<"E", "P", "I", "L", "O", "G", "U", "E">>,
      <<"I", "N", "T", "E", "R", "L", "U", "D", "E">>,
      <<"A", "C", "T", " ", "I">>,
      <<"A", "C", "T", " ", "1">>,
      <<"A", "C", "T">> }

FrontSamples ==
    { <<"D", "E", "D", "I", "C", "A", "T", "I", "O", "N">>,
      <<"A", "C", "K", "N", "O", "W", "L", "E", "D", "G", "M", "E", "N", "T">>,
      <<"A", "C", "K", "N", "O", "W", "L", "E", "D", "G", "M", "E", "N", "T", "S">>,
      <<"A", "C", "K", "N", "O", "W", "L", "E", "D", "G", "E", "M", "E", "N", "T">>,
      <<"A", "C", "K", "N", "O", "W", "L", "E", "D", "G", "E", "M", "E", "N", "T", "S">>,
      <<"P", "R", "E", "F", "A", "C", "E">>,
      <<"F", "O", "R", "E", "W", "O", "R", "D">>,
      <<"I", "N", "T", "R", "O", "D", "U", "C", "T", "I", "O", "N">>,
      <<"N", "O", "T", "E", " ", "T", "O", " ", "R", "E", "A", "D", "E", "R">>,
      <<"A", "U", "T", "H", "O", "R", "'", "S", " ", "N", "O", "T", "E">>,
      <<"A", "U", "T", "H", "O", "R", "S", " ", "N", "O", "T", "E">>,
      <<"A", "U", "T", "H", "O", "R", " ", "N", "O", "T", "E">> }

BackSamples ==
    { <<"A", "B", "O", "U", "T", " ", "T", "H", "E", " ", "A", "U", "T", "H", "O", "R">>,
      <<"A", "b", "o", "u", "t", " ", "t", "h", "e", " ", "A", "u", "t", "h", "o", "r">>,
      <<"A", "L", "S", "O", " ", "B", "Y">>,
      <<"B", "I", "B", "L", "I", "O", "G", "R", "A", "P", "H", "Y">>,
      <<"G", "L", "O", "S", "S", "A", "R", "Y">>,
      <<"I", "N", "D", "E", "X">>,
      <<"N", "O", "T", "E", "S">>,
      <<"A", "P", "P", "E", "N", "D", "I", "X">>,
      <<"A", "F", "T", "E", "R", "W", "O", "R", "D">>,
      <<"B", "O", "N", "U", "S">> }

OrnamentSamples ==
    { <<"*", "*", "*">>,
      <<"*", " ", "*", " ", "*">>,
      <<"-", "-", "-">>,
      <<"~", "~", "~">>,
      <<"-", "#", "-">>,
      <<"*", " ", "*">>,
      <<"*", "*">>,
      <<"#", "#", "#", "#">> }

ProseSamples ==
    { <<>>,
      <<"H", "e", "l", "l", "o">>,
      <<"I", "t", " ", "w", "a", "s", " ", "a", " ", "d", "a", "r", "k", " ", "n", "i", "g", "h", "t", ".">>,
      <<"S", "h", "e", " ", "n", "e", "v", "e", "r", " ", "r", "e", "t", "u", "r", "n", "e", "d", ".">> }
Samples == ChapterSamples \cup FrontSamples \cup BackSamples
               \cup OrnamentSamples \cup ProseSamples

Filler(n)  == [i \in 1..n |-> "a"]
PadLens    == (0..MaxPad) \cup {HeadingMaxLen}
Cased(s)   == {s, Lower(s), Upper(s)}
Wrapped(s) == {s, <<" ", "\t">> \o s \o <<" ">>}

InputLines ==
    UNION { Wrapped(c \o Filler(n)) : c \in UNION {Cased(s) : s \in Samples}, n \in PadLens }

\* result = detect_content_type(line)
Classify ==
    /\ result = NoResult
    /\ result' = detect_content_type(line)
    /\ UNCHANGED <<line, parseVars, pagesVars, layoutVars, docxVars,
                   txtVars, convVars, detectVars, callsVars, serverVars>>

InitClassify ==
    /\ line \in InputLines
    /\ result = NoResult
    /\ IdleParse /\ IdlePages /\ IdleLayout /\ IdleDocx /\ IdleRest

NextClassify == Classify

SpecClassify == InitClassify /\ [][NextClassify]_vars

(***************************************************************************)
(* guess_pages_from_wordcount and estimate_wordcount.  A file is readable  *)
(* (extract_text_quick returns its text) or not (it raises); font sizes    *)
(* are counted in tenths of a point.                                       *)
(***************************************************************************)
\* len(re.findall(r"\b\w+\b", txt)): the maximal runs of word characters
WordCount(txt) ==
    Cardinality({i \in 1..Len(txt) :
                    txt[i] \in WordSet /\ (i = 1 \/ txt[i - 1] \notin WordSet)})

\* try: return len(words) / except Exception: return None
estimate_wordcount(f) == IF f.readable THEN Some(WordCount(f.txt)) ELSE None

\* int(round(n / d)) for n >= 0, d > 0: round() rounds halves to the even neighbour
RoundDiv(n, d) ==
    LET q == n \div d
        r == n % d
    IN  IF 2 * r < d THEN q
        ELSE IF 2 * r > d THEN q + 1
        ELSE IF q % 2 = 0 THEN q ELSE q + 1

Max2(a, b) == IF a >= b THEN a ELSE b

\* the same without the max(1, ...) floor
guess_pages_from_wordcount_nofloor(f, fs) ==
    LET wc  == estimate_wordcount(f)
        wpp == IF fs <= 110 THEN 350 ELSE 300
    IN  IF wc = None \/ wc.val = 0 THEN None
        ELSE Some(RoundDiv(wc.val, wpp))

\* the same with the quotient cut off instead of rounded
guess_pages_from_wordcount_truncated(f, fs) ==
    LET wc  == estimate_wordcount(f)
        wpp == IF fs <= 110 THEN 350 ELSE 300
    IN  IF wc = None \/ wc.val = 0 THEN None
        ELSE Some(Max2(1, wc.val \div wpp))

guess_pages_from_wordcount(f, fs) ==
    LET wc  == estimate_wordcount(f)
        wpp == IF fs <= 110 THEN 350 ELSE 300
    IN  IF wc = None \/ wc.val = 0 THEN None
        ELSE Some(Max2(1, RoundDiv(wc.val, wpp)))

\* pages = guess_pages_from_wordcount(path, font_size_pt)
GuessPages ==
    /\ called = "called"
    /\ pages' = guess_pages_from_wordcount(file, font_size_pt)
    /\ called' = "returned"
    /\ UNCHANGED <<file, font_size_pt, classifyVars, parseVars, layoutVars, docxVars,
                   txtVars, convVars, detectVars, callsVars, serverVars>>

\* Texts: a unit of zero, one or two words repeated 0, 1 or 25 * k times
TextUnits ==
    { <<"w", " ">>,
      <<"x", "_", "1", "\n">>,
      <<"a", "-", "b", " ">>,
      <<".", " ">> }
RepeatCounts == {0, 1} \cup {25 * k : k \in 1..MaxChunks}
Repeat(u, n) == [i \in 1..(n * Len(u)) |-> u[((i - 1) % Len(u)) + 1]]
Texts == {Repeat(u, n) : u \in TextUnits, n \in RepeatCounts}
FontSizes == {100, 110, 111, 120}

InitPages ==
    /\ file \in [readable : {TRUE}, txt : Texts] \cup {[readable |-> FALSE, txt |-> <<>>]}
    /\ font_size_pt \in FontSizes
    /\ pages = None /\ called = "called"
    /\ IdleClassify /\ IdleParse /\ IdleLayout /\ IdleDocx /\ IdleRest

NextPages == GuessPages

SpecPages == InitPages /\ [][NextPages]_vars

(***************************************************************************)
(* Cover and page geometry of api/bookforge.py and the page-size lookup of *)
(* api/docx_generator.py.  Lengths are counted in thousandths of an inch   *)
(* (render_base_css: thousandths of a millimetre), the resolution of the   *)
(* code's round(..., 3); every catalog figure is a whole number of them.   *)
(* A raised exception is recorded by its name in the field raised.         *)
(***************************************************************************)
TRIM_PRESETS ==
    [k \in {"5x8", "5.5x8.5", "6x9", "8.5x11"} |->
        CASE k = "5x8"     -> [width_in |-> 5000, height_in |-> 8000,  target |-> "trade"]
          [] k = "5.5x8.5" -> [width_in |-> 5500, height_in |-> 8500,  target |-> "trade"]
          [] k = "6x9"     -> [width_in |-> 6000, height_in |-> 9000,  target |-> "trade"]
          [] k = "8.5x11"  -> [width_in |-> 8500, height_in |-> 11000, target |-> "workbook"]]

PAPER_STOCKS ==
    [k \in {"cream_55lb", "white_50lb"} |->
        CASE k = "cream_55lb" -> [kdp |-> TRUE, ingram |-> TRUE, pages_per_inch |-> 444]
          [] k = "white_50lb" -> [kdp |-> TRUE, ingram |-> TRUE, pages_per_inch |-> 512]]

\* a lookup d[key] of a key the dict does not hold
KeyError == [NoDimensions EXCEPT !.raised = "KeyError"]

\* the same cut off after the third decimal instead of rounded
inch_to_mm_truncated(x) == (x * 254) \div 10

\* round(x * 25.4, 3), x in thousandths of an inch, in thousandths of a millimetre
inch_to_mm(x) == RoundDiv(x * 254, 10)

\* the same with <= in place of <
suggested_gutter_inclusive(n) ==
    IF n <= 150 THEN 600
    ELSE IF n <= 300 THEN 700
    ELSE IF n <= 500 THEN 800
    ELSE 900

suggested_gutter(n) ==
    IF n < 150 THEN 600
    ELSE IF n < 300 THEN 700
    ELSE IF n < 500 THEN 800
    ELSE 900

\* the same with white_50lb as the fallback stock
calc_spine_width_in_white_default(n, p) ==
    LET ppi == (IF p \in DOMAIN PAPER_STOCKS THEN PAPER_STOCKS[p]
                ELSE PAPER_STOCKS["white_50lb"]).pages_per_inch
    IN  RoundDiv(n * 1000, ppi)

\* the same cut off after the third decimal instead of rounded
calc_spine_width_in_truncated(n, p) ==
    LET ppi == (IF p \in DOMAIN PAPER_STOCKS THEN PAPER_STOCKS[p]
                ELSE PAPER_STOCKS["cream_55lb"]).pages_per_inch
    IN  (n * 1000) \div ppi

\* ppi = PAPER_STOCKS.get(paper, PAPER_STOCKS["cream_55lb"])['pages_per_inch']
\* return round(page_count / ppi, 3)
calc_spine_width_in(n, p) ==
    LET ppi == (IF p \in DOMAIN PAPER_STOCKS THEN PAPER_STOCKS[p]
                ELSE PAPER_STOCKS["cream_55lb"]).pages_per_inch
    IN  RoundDiv(n * 1000, ppi)

\* the same with 6x9 substituted for an unknown trim key
cover_dimensions_default_trim(tk, n, p, b) ==
    LET trim     == IF tk \in DOMAIN TRIM_PRESETS THEN TRIM_PRESETS[tk] ELSE TRIM_PRESETS["6x9"]
        bleed_in == IF b THEN 125 ELSE 0
        spine_in == calc_spine_width_in(n, p)
    IN  [NoDimensions EXCEPT
            !.width  = trim.width_in * 2 + spine_in + 2 * bleed_in,
            !.height = trim.height_in + 2 * bleed_in,
            !.spine  = spine_in]

\* the same with the bleed added on one side only
cover_dimensions_single_bleed(tk, n, p, b) ==
    IF tk \notin DOMAIN TRIM_PRESETS THEN KeyError
    ELSE LET trim     == TRIM_PRESETS[tk]
             bleed_in == IF b THEN 125 ELSE 0
             spine_in == calc_spine_width_in(n, p)
         IN  [NoDimensions EXCEPT
                 !.width  = trim.width_in * 2 + spine_in + bleed_in,
                 !.height = trim.height_in + bleed_in,
                 !.spine  = spine_in]

cover_dimensions(tk, n, p, b) ==
    IF tk \notin DOMAIN TRIM_PRESETS THEN KeyError
    ELSE LET trim     == TRIM_PRESETS[tk]
             bleed_in == IF b THEN 125 ELSE 0
             spine_in == calc_spine_width_in(n, p)
         IN  [NoDimensions EXCEPT
                 !.width  = trim.width_in * 2 + spine_in + 2 * bleed_in,
                 !.height = trim.height_in + 2 * bleed_in,
                 !.spine  = spine_in]

\* trim = TRIM_PRESETS[cfg.trim]; page_width_mm, page_height_mm of the rendered sheet
\* top_margin_mm, bottom_margin_mm, gutter_mm, outer_margin_mm of cfg's margins m
render_base_css(tk, m) ==
    IF tk \notin DOMAIN TRIM_PRESETS THEN KeyError
    ELSE [NoDimensions EXCEPT
             !.width   = inch_to_mm(TRIM_PRESETS[tk].width_in),
             !.height  = inch_to_mm(TRIM_PRESETS[tk].height_in),
             !.margins = [top_margin_in    |-> inch_to_mm(m.top_margin_in),
                          bottom_margin_in |-> inch_to_mm(m.bottom_margin_in),
                          gutter_in        |-> inch_to_mm(m.gutter_in),
                          outer_margin_in  |-> inch_to_mm(m.outer_margin_in)]]

\* trim_map.get(trim, 6.0)
_trim_to_width(trim) ==
    IF trim \in {"5x8", "5.5x8.5", "6x9", "8.5x11"}
    THEN (CASE trim = "5x8" -> 5000 [] trim = "5.5x8.5" -> 5500
            [] trim = "6x9" -> 6000 [] trim = "8.5x11" -> 8500)
    ELSE 6000

\* trim_map.get(trim, 9.0)
_trim_to_height(trim) ==
    IF trim \in {"5x8", "5.5x8.5", "6x9", "8.5x11"}
    THEN (CASE trim = "5x8" -> 8000 [] trim = "5.5x8.5" -> 8500
            [] trim = "6x9" -> 9000 [] trim = "8.5x11" -> 11000)
    ELSE 9000

\* dims = cover_dimensions(args.trim, args.pages, args.paper, args.bleed)
CoverDimensions ==
    /\ layout_call = "none"
    /\ layout_call' = "cover_dimensions"
    /\ layout_out' = cover_dimensions(trim_key, page_count, paper, bleed)
    /\ UNCHANGED <<trim_key, page_count, paper, bleed, margins,
                   classifyVars, parseVars, pagesVars, docxVars,
                   txtVars, convVars, detectVars, callsVars, serverVars>>

\* spine_in = calc_spine_width_in(page_count, paper)
CalcSpineWidth ==
    /\ layout_call = "none"
    /\ layout_call' = "calc_spine_width_in"
    /\ layout_out' = [NoDimensions EXCEPT !.spine = calc_spine_width_in(page_count, paper)]
    /\ UNCHANGED <<trim_key, page_count, paper, bleed, margins,
                   classifyVars, parseVars, pagesVars, docxVars,
                   txtVars, convVars, detectVars, callsVars, serverVars>>

\* base_css = render_base_css(cfg)
RenderBaseCss ==
    /\ layout_call = "none"
    /\ layout_call' = "render_base_css"
    /\ layout_out' = render_base_css(trim_key, margins)
    /\ UNCHANGED <<trim_key, page_count, paper, bleed, margins,
                   classifyVars, parseVars, pagesVars, docxVars,
                   txtVars, convVars, detectVars, callsVars, serverVars>>

\* render_full_html renders the sheet once more with the same cfg:
\* base_css = render_base_css(cfg)
RenderBaseCssAgain ==
    /\ layout_call = "render_base_css"
    /\ layout_call' = "render_base_css again"
    /\ layout_out' = render_base_css(trim_key, margins)
    /\ UNCHANGED <<trim_key, page_count, paper, bleed, margins,
                   classifyVars, parseVars, pagesVars, docxVars,
                   txtVars, convVars, detectVars, callsVars, serverVars>>

\* generate_docx_from_manuscript: page_width_inches = _trim_to_width(trim),
\* page_height_inches = _trim_to_height(trim)
DocxPageSize ==
    /\ layout_call = "none"
    /\ layout_call' = "_trim_to_width"
    /\ layout_out' = [NoDimensions EXCEPT !.width  = _trim_to_width(trim_key),
                                          !.height = _trim_to_height(trim_key)]
    /\ UNCHANGED <<trim_key, page_count, paper, bleed, margins,
                   classifyVars, parseVars, pagesVars, docxVars,
                   txtVars, convVars, detectVars, callsVars, serverVars>>

\* gutter = suggested_gutter(page_count_guess)
SuggestedGutter ==
    /\ layout_call = "none"
    /\ layout_call' = "suggested_gutter"
    /\ layout_out' = [NoDimensions EXCEPT !.gutter = suggested_gutter(page_count)]
    /\ UNCHANGED <<trim_key, page_count, paper, bleed, margins,
                   classifyVars, parseVars, pagesVars, docxVars,
                   txtVars, convVars, detectVars, callsVars, serverVars>>

\* the catalog keys and keys the catalogs do not hold; page counts 0..MaxPages
TrimKeys   == DOMAIN TRIM_PRESETS \cup {"unknown_trim", "A5"}
PaperKeys  == DOMAIN PAPER_STOCKS \cup {"unknown_paper"}
PageCounts == 0..MaxPages

\* the default margins of DEFAULTS, and margins whose millimetre values need rounding
MarginSets ==
    { [top_margin_in |-> 750, bottom_margin_in |-> 850, gutter_in |-> 700, outer_margin_in |-> 750],
      [top_margin_in |-> 667, bottom_margin_in |-> 333, gutter_in |-> 1,   outer_margin_in |-> 1002] }

InitLayout ==
    /\ trim_key \in TrimKeys
    /\ page_count \in PageCounts
    /\ paper \in PaperKeys
    /\ bleed \in BOOLEAN
    /\ margins \in MarginSets
    /\ layout_call = "none" /\ layout_out = NoDimensions
    /\ IdleClassify /\ IdleParse /\ IdlePages /\ IdleDocx /\ IdleRest

NextLayout ==
    CoverDimensions \/ CalcSpineWidth \/ RenderBaseCss \/ RenderBaseCssAgain
        \/ DocxPageSize \/ SuggestedGutter

SpecLayout == InitLayout /\ [][NextLayout]_vars

(***************************************************************************)
(* clean_chapter_title of api/docx_generator.py.  Its two patterns carry   *)
(* groups, so the match is computed with its positions: re tries the       *)
(* longest repetition of each item first and gives a character back only   *)
(* when the rest of the pattern fails.  Under re.IGNORECASE a letter of    *)
(* the pattern stands for both of its cases.                               *)
(***************************************************************************)
\* the positions at which the items i, i + 1, ... of p begin in the first
\* match found from pos on, followed by the position after the match;
\* <<>> when there is no match
RECURSIVE MatchSpans(_, _, _, _), TryCount(_, _, _, _, _)
MatchSpans(p, i, s, pos) ==
    IF i > Len(p) THEN <<pos>>
    ELSE IF p[i].k = "eol"
         THEN IF pos = Len(s) + 1 \/ (pos = Len(s) /\ s[pos] = "\n")
              THEN LET r == MatchSpans(p, i + 1, s, pos)
                   IN  IF r = <<>> THEN <<>> ELSE <<pos>> \o r
              ELSE <<>>
         ELSE LET run == RunLen(p[i].cls, s, pos)
                  top == IF p[i].unb \/ run < p[i].hi THEN run ELSE p[i].hi
              IN  TryCount(p, i, s, pos, top)

\* item i of p repeated n times, or else fewer, down to its minimum
TryCount(p, i, s, pos, n) ==
    IF n < p[i].lo THEN <<>>
    ELSE LET r == MatchSpans(p, i + 1, s, pos + n)
         IN  IF r # <<>> THEN <<pos>> \o r
             ELSE TryCount(p, i, s, pos, n - 1)

LitI(s)  == [i \in 1..Len(s) |-> Rep({UpperChar(s[i]), LowerChar(s[i])}, 1, 1)]
Letters  == UpperSet \cup LowerSet                                   \* [A-Z] under IGNORECASE
NUM_LABEL  == LitI(sCHAPTER) \o Ws1 \o <<Many(DigitSet, 1)>>          \* CHAPTER\s+\d+
WORD_LABEL == LitI(sCHAPTER) \o Ws1
                 \o <<Many(Letters, 1), Many(WordSpaceDash, 0)>>     \* CHAPTER\s+[A-Z]+[\w\s-]*
COLON_WS   == Lit(<<":">>) \o <<Many(SpaceSet, 0)>>                   \* :\s*

\* ^(CHAPTER\s+\d+):\s*(CHAPTER\s+[A-Z]+[\w\s-]*:)
NUM_THEN_WORD == NUM_LABEL \o COLON_WS \o WORD_LABEL \o Lit(<<":">>)
\* ^(CHAPTER\s+[A-Z]+[\w\s-]*):\s*(CHAPTER\s+\d+:)
WORD_THEN_NUM == WORD_LABEL \o COLON_WS \o NUM_LABEL \o Lit(<<":">>)

\* match.group(2).strip() of the first pattern, else match.group(1).strip() + ':'
\* of the second, else title
clean_chapter_title(title) ==
    LET m1 == MatchSpans(NUM_THEN_WORD, 1, title, 1)
        m2 == MatchSpans(WORD_THEN_NUM, 1, title, 1)
    IN  IF m1 # <<>>
        THEN Strip(SubSeq(title, m1[Len(NUM_LABEL) + Len(COLON_WS) + 1], m1[Len(m1)] - 1))
        ELSE IF m2 # <<>>
        THEN Strip(SubSeq(title, 1, m2[Len(WORD_LABEL) + 1] - 1)) \o <<":">>
        ELSE title

\* parse_manuscript(content) as one call: the loop over the lines, then the last flush
RECURSIVE parse_lines(_, _, _, _, _)
parse_lines(ls, k, bs, cpl, bc) ==
    IF k > Len(ls) THEN flush_paragraph(bs, cpl).blocks
    ELSE LET after == parse_line(ls[k], bs, cpl, bc)
         IN  parse_lines(ls, k + 1, after.blocks, after.current_paragraph_lines,
                         after.blank_count)

parse_manuscript(c) == parse_lines(SplitNL(c), 1, <<>>, <<>>, 0)

(***************************************************************************)
(* create_professional_docx of api/docx_generator.py: the body of the     *)
(* document as the sequence of paragraphs and page breaks added to it.    *)
(* Page size, margins, styles, header and footer are set on the section   *)
(* and the style table and add nothing to the body.                       *)
(***************************************************************************)
sCopyright ==
    << "C", "o", "p", "y", "r", "i", "g", "h", "t", " ", "©", " " >>
s2024 == <<"2", "0", "2", "4">>
sAuthorDefault == <<"A", "u", "t", "h", "o", "r">>
sAllRightsReserved ==
    << "A", "l", "l", " ", "r", "i", "g", "h", "t", "s", " ", "r", "e", "s",
       "e", "r", "v", "e", "d", "." >>
sNoPartOfThisBook ==
    << "N", "o", " ", "p", "a", "r", "t", " ", "o", "f", " ", "t", "h", "i",
       "s", " ", "b", "o", "o", "k", " ", "m", "a", "y", " ", "b", "e", " ",
       "r", "e", "p", "r", "o", "d", "u", "c", "e", "d", " ", "i", "n", " ",
       "a", "n", "y", " ", "f", "o", "r", "m", " ", "o", "r", " ", "b", "y",
       " ", "a", "n", "y", " ", "e", "l", "e", "c", "t", "r", "o", "n", "i",
       "c", " ", "o", "r", " ", "m", "e", "c", "h", "a", "n", "i", "c", "a",
       "l", " ", "m", "e", "a", "n", "s", ",", " ", "i", "n", "c", "l", "u",
       "d", "i", "n", "g", " ", "i", "n", "f", "o", "r", "m", "a", "t", "i",
       "o", "n", " ", "s", "t", "o", "r", "a", "g", "e", " ", "a", "n", "d",
       " ", "r", "e", "t", "r", "i", "e", "v", "a", "l", " ", "s", "y", "s",
       "t", "e", "m", "s", ",", " ", "w", "i", "t", "h", "o", "u", "t", " ",
       "w", "r", "i", "t", "t", "e", "n", " ", "p", "e", "r", "m", "i", "s",
       "s", "i", "o", "n", " ", "f", "r", "o", "m", " ", "t", "h", "e", " ",
       "a", "u", "t", "h", "o", "r", ",", " ", "e", "x", "c", "e", "p", "t",
       " ", "f", "o", "r", " ", "t", "h", "e", " ", "u", "s", "e", " ", "o",
       "f", " ", "b", "r", "i", "e", "f", " ", "q", "u", "o", "t", "a", "t",
       "i", "o", "n", "s", " ", "i", "n", " ", "a", " ", "b", "o", "o", "k",
       " ", "r", "e", "v", "i", "e", "w", "." >>
sAboutTheAuthor ==
    << "A", "b", "o", "u", "t", " ", "t", "h", "e", " ", "A", "u", "t", "h",
       "o", "r" >>

\* doc.add_paragraph(text, style=style); doc.add_paragraph() is Paragraph(<<>>, "Normal")
Paragraph(text, style) == [kind |-> "paragraph", text |-> text, style |-> style]
\* doc.add_page_break()
PageBreak == [kind |-> "page_break", text |-> <<>>, style |-> "Normal"]
EmptyParagraphs(n) == [k \in 1..n |-> Paragraph(<<>>, "Normal")]
OptionalParagraph(text, style) == IF text # <<>> THEN <<Paragraph(text, style)>> ELSE <<>>

_add_title_page(d, cfg) ==
    d \o EmptyParagraphs(6)
      \o <<Paragraph(cfg.title, "BookTitle")>>
      \o OptionalParagraph(cfg.subtitle, "BookSubtitle")
      \o OptionalParagraph(cfg.author, "BookAuthor")
      \o <<PageBreak>>

_add_copyright_page(d, cfg) ==
    LET year   == IF cfg.copyright_year # <<>> THEN cfg.copyright_year ELSE s2024
        holder == IF cfg.copyright_holder # <<>> THEN cfg.copyright_holder
                  ELSE IF cfg.author # <<>> THEN cfg.author ELSE sAuthorDefault
    IN  d \o EmptyParagraphs(15)
          \o << Paragraph(sCopyright \o year \o <<" ">> \o holder, "Copyright"),
                Paragraph(sAllRightsReserved, "Copyright"),
                Paragraph(<<>>, "Normal"),
                Paragraph(sNoPartOfThisBook, "Copyright"),
                PageBreak >>

_add_dedication_page(d, cfg) ==
    d \o EmptyParagraphs(8) \o <<Paragraph(cfg.dedication_text, "Dedication"), PageBreak>>

_add_about_author(d, cfg) ==
    d \o << PageBreak,
            Paragraph(sAboutTheAuthor, "SectionHeading"),
            Paragraph(cfg.about_author_text, "FirstParagraph") >>

\* the pages added before the loop over the blocks
front_pages(cfg) ==
    LET d1 == IF cfg.include_title_page THEN _add_title_page(<<>>, cfg) ELSE <<>>
        d2 == IF cfg.include_copyright THEN _add_copyright_page(d1, cfg) ELSE d1
    IN  IF cfg.include_dedication /\ cfg.dedication_text # <<>>
        THEN _add_dedication_page(d2, cfg) ELSE d2

\* the loop body with every block's text passed through clean_chapter_title
render_block_clean_all(block, d, cc, first, cfg) ==
    LET rest == [doc |-> d, chapter_count |-> cc, is_first_paragraph_in_chapter |-> first]
        text == clean_chapter_title(block.text)
    IN  IF block.content_type = CHAPTER_HEADING
        THEN [doc |-> d \o (IF cc + 1 > 1 \/ cfg.include_title_page THEN <<PageBreak>> ELSE <<>>)
                        \o <<Paragraph(text, "ChapterHeading")>>,
              chapter_count |-> cc + 1,
              is_first_paragraph_in_chapter |-> TRUE]
        ELSE IF block.content_type \in {FRONT_MATTER_HEADING, BACK_MATTER_HEADING}
        THEN [rest EXCEPT !.doc = d \o <<PageBreak, Paragraph(text, "SectionHeading")>>,
                          !.is_first_paragraph_in_chapter = TRUE]
        ELSE IF block.content_type = SCENE_BREAK
        THEN [rest EXCEPT !.doc = d \o <<Paragraph(cfg.scene_break_symbol, "SceneBreak")>>]
        ELSE IF block.content_type = PARAGRAPH /\ block.text # <<>>
        THEN IF first
             THEN [rest EXCEPT !.doc = d \o <<Paragraph(text, "FirstParagraph")>>,
                               !.is_first_paragraph_in_chapter = FALSE]
             ELSE [rest EXCEPT !.doc = d \o <<Paragraph(text, "BodyText")>>]
        ELSE rest

\* the body of "for i, block in enumerate(blocks)"
render_block(block, d, cc, first, cfg) ==
    LET rest == [doc |-> d, chapter_count |-> cc, is_first_paragraph_in_chapter |-> first]
    IN  IF block.content_type = CHAPTER_HEADING
        THEN [doc |-> d \o (IF cc + 1 > 1 \/ cfg.include_title_page THEN <<PageBreak>> ELSE <<>>)
                        \o <<Paragraph(clean_chapter_title(block.text), "ChapterHeading")>>,
              chapter_count |-> cc + 1,
              is_first_paragraph_in_chapter |-> TRUE]
        ELSE IF block.content_type \in {FRONT_MATTER_HEADING, BACK_MATTER_HEADING}
        THEN [rest EXCEPT !.doc = d \o <<PageBreak, Paragraph(block.text, "SectionHeading")>>,
                          !.is_first_paragraph_in_chapter = TRUE]
        ELSE IF block.content_type = SCENE_BREAK
        THEN [rest EXCEPT !.doc = d \o <<Paragraph(cfg.scene_break_symbol, "SceneBreak")>>]
        ELSE IF block.content_type = PARAGRAPH /\ block.text # <<>>
        THEN IF first
             THEN [rest EXCEPT !.doc = d \o <<Paragraph(block.text, "FirstParagraph")>>,
                               !.is_first_paragraph_in_chapter = FALSE]
             ELSE [rest EXCEPT !.doc = d \o <<Paragraph(block.text, "BodyText")>>]
        ELSE rest

\* blocks = parse_manuscript(content); doc = Document(); the title, copyright
\* and dedication pages; chapter_count = 0; is_first_paragraph_in_chapter = False
DocxStart ==
    /\ docx_pc = "start"
    /\ docx_blocks' = parse_manuscript(manuscript)
    /\ doc' = front_pages(config)
    /\ chapter_count' = 0
    /\ is_first_paragraph_in_chapter' = FALSE
    /\ block_i' = 1
    /\ docx_pc' = "loop"
    /\ UNCHANGED <<manuscript, config, classifyVars, parseVars, pagesVars, layoutVars,
                   txtVars, convVars, detectVars, callsVars, serverVars>>

\* one pass of the loop over the blocks
DocxBlock ==
    /\ docx_pc = "loop"
    /\ block_i <= Len(docx_blocks)
    /\ LET after == render_block(docx_blocks[block_i], doc, chapter_count,
                                 is_first_paragraph_in_chapter, config)
       IN  /\ doc' = after.doc
           /\ chapter_count' = after.chapter_count
           /\ is_first_paragraph_in_chapter' = after.is_first_paragraph_in_chapter
    /\ block_i' = block_i + 1
    /\ UNCHANGED <<manuscript, config, docx_blocks, docx_pc,
                   classifyVars, parseVars, pagesVars, layoutVars,
                   txtVars, convVars, detectVars, callsVars, serverVars>>

\* after the loop: the About the Author section if configured; doc.save(...)
DocxFinish ==
    /\ docx_pc = "loop"
    /\ block_i > Len(docx_blocks)
    /\ doc' = IF config.include_about_author /\ config.about_author_text # <<>>
              THEN _add_about_author(doc, config) ELSE doc
    /\ docx_pc' = "saved"
    /\ UNCHANGED <<manuscript, config, docx_blocks, block_i, chapter_count,
                   is_first_paragraph_in_chapter,
                   classifyVars, parseVars, pagesVars, layoutVars,
                   txtVars, convVars, detectVars, callsVars, serverVars>>

\* Manuscripts of at most MaxDocLines lines: a blank line, chapter headings
\* that carry both labels (either order) or one, two prose lines that join
\* into a paragraph reading like a doubly labelled heading, a front- and a
\* back-matter heading, an ornament.
DocxCatalog ==
    { <<>>,
      <<"C", "h", "a", "p", "t", "e", "r", " ", "1", ":", " ", "C", "h", "a", "p", "t", "e", "r", " ", "T", "w", "o", ":", " ", "U", "p">>,
      <<"C", "H", "A", "P", "T", "E", "R", " ", "T", "W", "O", ":", " ", "C", "H", "A", "P", "T", "E", "R", " ", "2", ":", " ", "U", "p">>,
      <<"C", "H", "A", "P", "T", "E", "R", " ", "O", "N", "E", ":", " ", "D", "a", "w", "n">>,
      <<"C", "h", "a", "p", "t", "e", "r">>,
      <<"1", ":", " ", "C", "h", "a", "p", "t", "e", "r", " ", "O", "n", "e", ":", " ", "x">>,
      <<"D", "e", "d", "i", "c", "a", "t", "i", "o", "n">>,
      <<"N", "O", "T", "E", "S">>,
      <<"*", " ", "*", " ", "*">> }
DocxManuscripts ==
    {Join(<<"\n">>, ls) : ls \in UNION {[1..n -> DocxCatalog] : n \in 0..MaxDocLines}}
DocxConfigs ==
    { [DocxConfig(<<"T">>) EXCEPT !.include_title_page = t, !.include_copyright = c] :
          t \in BOOLEAN, c \in BOOLEAN }

InitDocx ==
    /\ manuscript \in DocxManuscripts
    /\ config \in DocxConfigs
    /\ docx_blocks = <<>> /\ block_i = 0 /\ doc = <<>> /\ chapter_count = 0
    /\ is_first_paragraph_in_chapter = FALSE /\ docx_pc = "start"
    /\ IdleClassify /\ IdleParse /\ IdlePages /\ IdleLayout /\ IdleRest

NextDocx == DocxStart \/ DocxBlock \/ DocxFinish

SpecDocx == InitDocx /\ [][NextDocx]_vars

(***************************************************************************)
(* txt_to_html_with_chapters of api/bookforge.py: plain text to the list   *)
(* html_lines of tags and escaped text that the function joins with        *)
(* newlines and returns.                                                   *)
(***************************************************************************)
\* the patterns of detect_chapter_heading
BF_CHAPTER_PATTERNS ==
    << Lit(sCHAPTER) \o Ws1 \o <<Many(UpperSet, 1), Many(WordSet \cup SpaceSet, 0),
                                 Rep({":"}, 0, 1)>>,
       Lit(sCHAPTER) \o Ws1 \o <<Many(DigitSet, 1)>>,
       Lit(sPART) \o Ws1 \o <<Many({"I", "V", "X"}, 1)>>,
       Lit(sPART) \o Ws1 \o <<Many(DigitSet, 1)>>,
       Lit(sPROLOGUE),
       Lit(sEPILOGUE) >>

\* line_upper = line.strip().upper(); True iff some pattern matches
detect_chapter_heading(l) == MatchesAny(BF_CHAPTER_PATTERNS, Upper(Strip(l)))

\* s.replace("&", "&amp;").replace("<", "&lt;").replace(">", "&gt;")
\*  .replace('"', "&quot;").replace("'", "&#39;")
EscapeChar(c) ==
    CASE c = "&"  -> <<"&", "a", "m", "p", ";">>
      [] c = "<"  -> <<"&", "l", "t", ";">>
      [] c = ">"  -> <<"&", "g", "t", ";">>
      [] c = "\"" -> <<"&", "q", "u", "o", "t", ";">>
      [] c = "'"  -> <<"&", "#", "3", "9", ";">>
      [] OTHER    -> <<c>>
RECURSIVE html_escape(_)
html_escape(s) == IF s = <<>> THEN <<>> ELSE EscapeChar(s[1]) \o html_escape(Tail(s))

\* str(n) for n >= 0
DigitChars == <<"0", "1", "2", "3", "4", "5", "6", "7", "8", "9">>
RECURSIVE IntStr(_)
IntStr(n) == IF n < 10 THEN <<DigitChars[n + 1]>>
             ELSE IntStr(n \div 10) \o <<DigitChars[(n % 10) + 1]>>

tHtmlOpen     == <<"<", "h", "t", "m", "l", ">", "<", "b", "o", "d", "y", ">">>
tHtmlClose    == <<"<", "/", "b", "o", "d", "y", ">", "<", "/", "h", "t", "m", "l", ">">>
tSectionClose == <<"<", "/", "s", "e", "c", "t", "i", "o", "n", ">">>
tPOpen        == <<"<", "p", ">">>
tPClose       == <<"<", "/", "p", ">">>
\* f'<section class="chapter" id="{heading_id}">' with heading_id = f"chapter-{n}"
tSectionOpen(n) == <<"<", "s", "e", "c", "t", "i", "o", "n", " ", "c", "l", "a", "s", "s", "=", "\"", "c", "h", "a", "p", "t", "e", "r", "\"", " ", "i", "d", "=", "\"", "c", "h", "a", "p", "t", "e", "r", "-">> \o IntStr(n) \o <<"\"", ">">>
\* f'<h1 class="chapter-title">{html_escape(heading_text)}</h1>'
tH1(t) == <<"<", "h", "1", " ", "c", "l", "a", "s", "s", "=", "\"", "c", "h", "a", "p", "t", "e", "r", "-", "t", "i", "t", "l", "e", "\"", ">">> \o html_escape(t) \o <<"<", "/", "h", "1", ">">>

SubtitleMaxLen == 100
EndsWith(s, c) == Len(s) > 0 /\ s[Len(s)] = c

\* detect_chapter_heading(line) and len(stripped) < 200
IsTxtHeading(l) == detect_chapter_heading(l) /\ Len(Strip(l)) < HeadingMaxLen

\* the subtitle test on the line after a heading: lines[i + 1].strip() and not
\* detect_chapter_heading(lines[i + 1]), then len(next_line) < 100 and not
\* next_line.endswith('.')
MergesNext(ls, i) ==
    /\ i + 1 <= Len(ls)
    /\ Strip(ls[i + 1]) # <<>>
    /\ ~detect_chapter_heading(ls[i + 1])
    /\ Len(Strip(ls[i + 1])) < SubtitleMaxLen
    /\ ~EndsWith(Strip(ls[i + 1]), ".")

\* the body of "for i, line in enumerate(lines)" for line i (counted from 1)
txt_line(ls, i, h, inp, cc, skip) ==
    LET stripped == Strip(ls[i])
    IN  IF skip
        THEN [html_lines |-> h, in_paragraph |-> inp, chapter_count |-> cc, skip_next |-> FALSE]
        ELSE IF IsTxtHeading(ls[i])
        THEN LET merge == MergesNext(ls, i)
                 heading_text == IF merge THEN stripped \o <<":", " ">> \o Strip(ls[i + 1])
                                 ELSE stripped
             IN  [html_lines |-> h \o (IF cc > 0 THEN <<tSectionClose>> ELSE <<>>)
                                   \o (IF inp THEN <<tPClose>> ELSE <<>>)
                                   \o <<tSectionOpen(cc + 1), tH1(heading_text)>>,
                  in_paragraph |-> FALSE,
                  chapter_count |-> cc + 1,
                  skip_next |-> merge]
        ELSE IF stripped = <<>>
        THEN [html_lines |-> h \o (IF inp THEN <<tPClose>> ELSE <<>>),
              in_paragraph |-> FALSE, chapter_count |-> cc, skip_next |-> FALSE]
        ELSE [html_lines |-> h \o (IF inp THEN << <<" ">> >> ELSE <<tPOpen>>)
                              \o <<html_escape(stripped)>>,
              in_paragraph |-> TRUE, chapter_count |-> cc, skip_next |-> FALSE]

\* lines = text.split('\n'); html_lines = ['<html><body>']; in_paragraph = False;
\* chapter_count = 0; skip_next = False
TxtStart ==
    /\ txt_pc = "start"
    /\ txt_lines' = SplitNL(txt_text)
    /\ html_lines' = <<tHtmlOpen>>
    /\ in_paragraph' = FALSE
    /\ txt_chapter_count' = 0
    /\ skip_next' = FALSE
    /\ txt_i' = 1
    /\ txt_pc' = "loop"
    /\ UNCHANGED <<txt_text, classifyVars, parseVars, pagesVars, layoutVars, docxVars,
                   convVars, detectVars, callsVars, serverVars>>

\* one pass of the loop
TxtLine ==
    /\ txt_pc = "loop"
    /\ txt_i <= Len(txt_lines)
    /\ LET after == txt_line(txt_lines, txt_i, html_lines, in_paragraph,
                             txt_chapter_count, skip_next)
       IN  /\ html_lines' = after.html_lines
           /\ in_paragraph' = after.in_paragraph
           /\ txt_chapter_count' = after.chapter_count
           /\ skip_next' = after.skip_next
    /\ txt_i' = txt_i + 1
    /\ UNCHANGED <<txt_text, txt_lines, txt_pc,
                   classifyVars, parseVars, pagesVars, layoutVars, docxVars,
                   convVars, detectVars, callsVars, serverVars>>

\* after the loop: close the open paragraph, then the open section, then the body
TxtFinish ==
    /\ txt_pc = "loop"
    /\ txt_i > Len(txt_lines)
    /\ html_lines' = html_lines \o (IF in_paragraph THEN <<tPClose>> ELSE <<>>)
                                \o (IF txt_chapter_count > 0 THEN <<tSectionClose>> ELSE <<>>)
                                \o <<tHtmlClose>>
    /\ txt_pc' = "done"
    /\ UNCHANGED <<txt_text, txt_lines, txt_i, in_paragraph, txt_chapter_count, skip_next,
                   classifyVars, parseVars, pagesVars, layoutVars, docxVars,
                   convVars, detectVars, callsVars, serverVars>>

\* Texts of at most MaxTxtLines lines: blank lines, two headings, a subtitle,
\* sentences ending in a full stop, a question mark and an exclamation mark,
\* and unpunctuated lines of 99 and of 100 characters.
TxtCatalog ==
    { <<>>,
      <<" ">>,
      <<"C", "H", "A", "P", "T", "E", "R", " ", "O", "N", "E">>,
      <<" ", "P", "a", "r", "t", " ", "2", " ">>,
      <<"T", "h", "e", " ", "<", "I", "n", "v", "i", "t", "a", "t", "i", "o", "n", ">">>,
      <<"I", "t", " ", "r", "a", "i", "n", "e", "d", ".">>,
      <<"W", "h", "o", "?">>,
      <<"R", "u", "n", "!">>,
      [k \in 1..(SubtitleMaxLen - 1) |-> "a"],
      [k \in 1..SubtitleMaxLen |-> "b"] }
TxtTexts ==
    {Join(<<"\n">>, ls) : ls \in UNION {[1..n -> TxtCatalog] : n \in 0..MaxTxtLines}}

InitTxt ==
    /\ txt_text \in TxtTexts
    /\ txt_lines = <<>> /\ txt_i = 0 /\ html_lines = <<>>
    /\ in_paragraph = FALSE /\ txt_chapter_count = 0 /\ skip_next = FALSE
    /\ txt_pc = "start"
    /\ IdleClassify /\ IdleParse /\ IdlePages /\ IdleLayout /\ IdleDocx
    /\ IdleConv /\ IdleDetect /\ IdleCalls /\ IdleServer

NextTxt == TxtStart \/ TxtLine \/ TxtFinish

SpecTxt == InitTxt /\ [][NextTxt]_vars

(***************************************************************************)
(* Two invocations of parse_manuscript in progress at once, as when two    *)
(* requests are served by two threads.  calls[c] holds the argument and    *)
(* the locals of invocation c; a step runs one line of one invocation.     *)
(***************************************************************************)
NewCall(c) ==
    [content |-> c, lines |-> <<>>, idx |-> 1, blocks |-> <<>>,
     current_paragraph_lines |-> <<>>, blank_count |-> 0, pc |-> "start"]

\* the loop body with the paragraph buffer and the blank counter kept in
\* one place for all invocations
call_line_shared_buffer(cs, c) ==
    LET me    == cs[c]
        after == parse_line(me.lines[me.idx], me.blocks, me.current_paragraph_lines,
                            me.blank_count)
    IN  [k \in DOMAIN cs |->
            IF k = c
            THEN [me EXCEPT !.blocks = after.blocks,
                            !.current_paragraph_lines = after.current_paragraph_lines,
                            !.blank_count = after.blank_count,
                            !.idx = me.idx + 1]
            ELSE [cs[k] EXCEPT !.current_paragraph_lines = after.current_paragraph_lines,
                               !.blank_count = after.blank_count]]

\* the body of the for loop of invocation c, for its next line
call_line(cs, c) ==
    LET me    == cs[c]
        after == parse_line(me.lines[me.idx], me.blocks, me.current_paragraph_lines,
                            me.blank_count)
    IN  [cs EXCEPT ![c] = [me EXCEPT !.blocks = after.blocks,
                                     !.current_paragraph_lines = after.current_paragraph_lines,
                                     !.blank_count = after.blank_count,
                                     !.idx = me.idx + 1]]

\* lines = content.split('\n'); blocks = []; current_paragraph_lines = []; blank_count = 0
CallStart ==
    \E c \in DOMAIN calls :
        /\ calls[c].pc = "start"
        /\ calls' = [calls EXCEPT ![c] = [@ EXCEPT !.lines = SplitNL(calls[c].content),
                                                   !.pc = "loop"]]
        /\ UNCHANGED <<classifyVars, parseVars, pagesVars, layoutVars, docxVars,
                       txtVars, convVars, detectVars, serverVars>>

CallLine ==
    \E c \in DOMAIN calls :
        /\ calls[c].pc = "loop"
        /\ calls[c].idx <= Len(calls[c].lines)
        /\ calls' = call_line(calls, c)
        /\ UNCHANGED <<classifyVars, parseVars, pagesVars, layoutVars, docxVars,
                       txtVars, convVars, detectVars, serverVars>>

\* flush_paragraph(); return blocks
CallFinish ==
    \E c \in DOMAIN calls :
        /\ calls[c].pc = "loop"
        /\ calls[c].idx > Len(calls[c].lines)
        /\ LET after == flush_paragraph(calls[c].blocks, calls[c].current_paragraph_lines)
           IN  calls' = [calls EXCEPT ![c] =
                            [@ EXCEPT !.blocks = after.blocks,
                                      !.current_paragraph_lines = after.current_paragraph_lines,
                                      !.pc = "done"]]
        /\ UNCHANGED <<classifyVars, parseVars, pagesVars, layoutVars, docxVars,
                       txtVars, convVars, detectVars, serverVars>>

\* the inputs of the two invocations: different manuscripts of at most
\* MaxCallLines lines
CallCatalog == { <<>>, <<"a">>, <<"b", " ", "c", ".">>, <<"C", "H", "A", "P", "T", "E", "R", " ", "O", "N", "E">> }
CallManuscripts ==
    {Join(<<"\n">>, ls) : ls \in UNION {[1..n -> CallCatalog] : n \in 0..MaxCallLines}}

InitCalls ==
    /\ \E c1 \in CallManuscripts, c2 \in CallManuscripts :
          c1 # c2 /\ calls = <<NewCall(c1), NewCall(c2)>>
    /\ IdleClassify /\ IdleParse /\ IdlePages /\ IdleLayout /\ IdleDocx
    /\ IdleTxt /\ IdleConv /\ IdleDetect /\ IdleServer

NextCalls == CallStart \/ CallLine \/ CallFinish

SpecCalls == InitCalls /\ [][NextCalls]_vars


\* ---------------------------------------------------------------------------
\* detect_and_convert_chapters_in_html (specification SpecConv)
\* ---------------------------------------------------------------------------

\* s[i:].startswith(lit), i counted from 1
StartsAt(s, i, lit) == i + Len(lit) - 1 <= Len(s) /\ SubSeq(s, i, i + Len(lit) - 1) = lit
\* the first position at or after from where lit begins, 0 if there is none
Find(s, lit, from) ==
    LET at == {i \in from..Len(s) : StartsAt(s, i, lit)}
    IN  IF at = {} THEN 0 ELSE Min(at)

\* re.search(open + r'[^>]*>(.*?)' + close, s): the leftmost start of open that
\* has a '>' after it and close after that; [^>]* stops at the first '>', the
\* lazy group at the first close. start and end are the span of group 1 as
\* first position and position after the last, counted from 1.
TagSearch(s, open, close) ==
    LET GroupStart(i) == Find(s, <<">">>, i + Len(open)) + 1
        ok == {i \in 1..Len(s) :
                  /\ StartsAt(s, i, open)
                  /\ GroupStart(i) > 1
                  /\ Find(s, close, GroupStart(i)) > 0}
    IN  IF ok = {} THEN NoMatch
        ELSE [found |-> TRUE, start |-> GroupStart(Min(ok)),
              end |-> Find(s, close, GroupStart(Min(ok)))]
Group1(s, m) == SubSeq(s, m.start, m.end - 1)

\* re.sub(r'<[^>]+>', '', t) from position i on
RECURSIVE StripTagsFrom(_, _)
StripTagsFrom(t, i) ==
    IF i > Len(t) THEN <<>>
    ELSE LET g == IF t[i] = "<" THEN Find(t, <<">">>, i + 1) ELSE 0
         IN  IF g > i + 1 THEN StripTagsFrom(t, g + 1)
             ELSE <<t[i]>> \o StripTagsFrom(t, i + 1)
StripTags(t) == StripTagsFrom(t, 1)

tBodyOpen  == <<"<", "b", "o", "d", "y">>
tBodyClose == <<"<", "/", "b", "o", "d", "y", ">">>
tPStart    == <<"<", "p">>
\* f'<h1 class="chapter-title">{text_match.group(1)}</h1>': the markup as it is
tH1Raw(t)  == <<"<", "h", "1", " ", "c", "l", "a", "s", "s", "=", "\"", "c", "h", "a", "p", "t", "e", "r", "-", "t", "i", "t", "l", "e", "\"", ">">> \o t \o <<"<", "/", "h", "1", ">">>

\* the body of "for i, line in enumerate(lines)": the lines appended to
\* processed_lines and the new chapter_count
conv_line(l, cc) ==
    LET stripped     == Strip(l)
        text_match   == TagSearch(l, tPStart, tPClose)
        text_content == Strip(StripTags(Group1(l, text_match)))
    IN  IF /\ text_match.found
           /\ detect_chapter_heading(text_content)
           /\ Len(text_content) < HeadingMaxLen
        THEN [added |-> <<tSectionOpen(cc + 1), tH1Raw(Group1(l, text_match))>>,
              chapter_count |-> cc + 1]
        ELSE IF /\ stripped # <<>>
                /\ ~StartsAt(stripped, 1, <<"<">>)
                /\ detect_chapter_heading(stripped)
                /\ Len(stripped) < HeadingMaxLen
        THEN [added |-> <<tSectionOpen(cc + 1), tH1(stripped)>>, chapter_count |-> cc + 1]
        ELSE [added |-> <<l>>, chapter_count |-> cc]

\* body_match = re.search(...); without a body the argument is returned as it
\* is, otherwise lines = body_content.split('\n') and the locals are set up
ConvStart ==
    /\ conv_pc = "start"
    /\ LET m == TagSearch(html_in, tBodyOpen, tBodyClose)
       IN  /\ body_match' = m
           /\ IF m.found
              THEN /\ conv_lines' = SplitNL(Group1(html_in, m))
                   /\ conv_i' = 1
                   /\ conv_pc' = "loop"
                   /\ html_out' = html_out
              ELSE /\ conv_lines' = conv_lines
                   /\ conv_i' = conv_i
                   /\ conv_pc' = "returned"
                   /\ html_out' = html_in
    /\ processed_lines' = <<>>
    /\ conv_chapter_count' = 0
    /\ UNCHANGED <<html_in, classifyVars, parseVars, pagesVars, layoutVars, docxVars,
                   txtVars, detectVars, callsVars, serverVars>>

\* one pass of the loop over the lines of the body
ConvLine ==
    /\ conv_pc = "loop"
    /\ conv_i <= Len(conv_lines)
    /\ LET after == conv_line(conv_lines[conv_i], conv_chapter_count)
       IN  /\ processed_lines' = processed_lines \o after.added
           /\ conv_chapter_count' = after.chapter_count
    /\ conv_i' = conv_i + 1
    /\ UNCHANGED <<html_in, body_match, conv_lines, html_out, conv_pc,
                   classifyVars, parseVars, pagesVars, layoutVars, docxVars,
                   txtVars, detectVars, callsVars, serverVars>>

\* after the loop: "if chapter_count > 0: processed_lines.append('</section>')",
\* then the body is replaced by the joined lines and the string returned
ConvFinish ==
    /\ conv_pc = "loop"
    /\ conv_i > Len(conv_lines)
    /\ LET closed == IF conv_chapter_count > 0
                     THEN processed_lines \o <<tSectionClose>> ELSE processed_lines
       IN  /\ processed_lines' = closed
           /\ html_out' = SubSeq(html_in, 1, body_match.start - 1)
                          \o Join(<<"\n">>, closed)
                          \o SubSeq(html_in, body_match.end, Len(html_in))
    /\ conv_pc' = "returned"
    /\ UNCHANGED <<html_in, body_match, conv_lines, conv_i, conv_chapter_count,
                   classifyVars, parseVars, pagesVars, layoutVars, docxVars,
                   txtVars, detectVars, callsVars, serverVars>>

MaxConvLines == 3
\* Body lines: paragraphs that read as chapter headings (one with inline
\* markup and an attribute), a plain paragraph, a bare heading line, an
\* empty line, other markup.
ConvCatalog ==
    { <<>>,
      <<"<", "p", ">", "C", "H", "A", "P", "T", "E", "R", " ", "O", "N", "E", "<", "/", "p", ">">>,
      <<"<", "p", " ", "c", "l", "a", "s", "s", "=", "\"", "t", "\"", ">", "<", "b", ">", "P", "r", "o", "l", "o", "g", "u", "e", "<", "/", "b", ">", "<", "/", "p", ">">>,
      <<"<", "p", ">", "I", "t", " ", "r", "a", "i", "n", "e", "d", ".", "<", "/", "p", ">">>,
      <<" ", "P", "a", "r", "t", " ", "2", " ", "&", " ", "3">>,
      <<"<", "h", "r", "/", ">">> }
ConvBodies ==
    {Join(<<"\n">>, ls) : ls \in UNION {[1..n -> ConvCatalog] : n \in 1..MaxConvLines}}
\* documents with a body element (with and without attributes), and a
\* fragment without one
ConvDocuments ==
    {<<"<", "h", "t", "m", "l", ">", "<", "b", "o", "d", "y", ">">> \o b \o <<"<", "/", "b", "o", "d", "y", ">", "<", "/", "h", "t", "m", "l", ">">> : b \in ConvBodies}
      \cup {<<"<", "b", "o", "d", "y", " ", "i", "d", "=", "\"", "b", "\"", ">">> \o b \o <<"<", "/", "b", "o", "d", "y", ">">> : b \in ConvBodies}
      \cup {<<"<", "p", ">", "C", "H", "A", "P", "T", "E", "R", " ", "O", "N", "E", "<", "/", "p", ">">>}

InitConv ==
    /\ html_in \in ConvDocuments
    /\ body_match = NoMatch /\ conv_lines = <<>> /\ conv_i = 0
    /\ processed_lines = <<>> /\ conv_chapter_count = 0 /\ html_out = <<>>
    /\ conv_pc = "start"
    /\ IdleClassify /\ IdleParse /\ IdlePages /\ IdleLayout /\ IdleDocx
    /\ IdleTxt /\ IdleDetect /\ IdleCalls /\ IdleServer

NextConv == ConvStart \/ ConvLine \/ ConvFinish

SpecConv == InitConv /\ [][NextConv]_vars


\* ---------------------------------------------------------------------------
\* The two chapter-heading detectors on one line (specification SpecDetect)
\* ---------------------------------------------------------------------------

\* "." of a pattern: any character but a newline, of the characters that occur
DotSet == (WordSet \cup SpaceSet \cup {":", "-", ".", ",", "!", "?", "&", "'"}) \ {"\n"}

\* the patterns of _is_chapter_heading, and the pattern matched after the loop
DP_CHAPTER_PATTERNS ==
    << Lit(sCHAPTER) \o Ws1 \o <<Many(UpperSet, 1), Many(WordSpaceDash, 0), Rep({":"}, 0, 1)>>,
       Lit(sCHAPTER) \o Ws1 \o <<Many(DigitSet, 1)>>,
       Lit(sCHAPTER) \o Ws1 \o <<Many(UpperSet, 1), Many(WordSpaceDash, 0), Rep({":"}, 1, 1),
                                 Many(DotSet, 0)>>,
       Lit(sCHAPTER) \o Ws1 \o <<Many(DigitSet, 1), Rep({":"}, 1, 1), Many(DotSet, 0)>>,
       Lit(sPART) \o Ws1 \o <<Many({"I", "V", "X"}, 1)>>,
       Lit(sPART) \o Ws1 \o <<Many(DigitSet, 1)>>,
       Lit(sPROLOGUE),
       Lit(sEPILOGUE),
       Lit(sCHAPTER) \o Ws1 \o <<Many(UpperSet, 1), Many(WordSpaceDash, 0), Rep({":"}, 0, 1)>> >>

\* document_processor._is_chapter_heading: False for an empty text and for
\* len(text) > 200; text_upper = text.upper().strip(); True iff a pattern matches
_is_chapter_heading(t) ==
    /\ t # <<>>
    /\ ~(Len(t) > HeadingMaxLen)
    /\ MatchesAny(DP_CHAPTER_PATTERNS, Strip(Upper(t)))

\* both tests applied to the same line: bookforge's
\* "detect_chapter_heading(line) and len(stripped) < 200" and
\* document_processor's "_is_chapter_heading(text_content)"
Detect ==
    /\ ~verdict.called
    /\ verdict' = [called |-> TRUE,
                   bookforge |-> IsTxtHeading(candidate),
                   document_processor |-> _is_chapter_heading(candidate)]
    /\ UNCHANGED <<candidate, classifyVars, parseVars, pagesVars, layoutVars, docxVars,
                   txtVars, convVars, callsVars, serverVars>>

\* Lines: a beginning (headings of each pattern family, a hyphenated number
\* word, plain prose, nothing), filled with letters up to a length at, one
\* under and one over the limit of 200, or left as it is, behind 0..MaxPad
\* spaces.
DetectHeads ==
    { <<"C", "H", "A", "P", "T", "E", "R", " ", "1">>, <<"C", "h", "a", "p", "t", "e", "r", " ", "O", "n", "e", ":", " ", "x">>, <<"c", "h", "a", "p", "t", "e", "r", " ", "t", "w", "e", "n", "t", "y", "-", "o", "n", "e">>, <<"P", "A", "R", "T", " ", "I", "V">>, <<"P", "a", "r", "t", " ", "2">>,
      <<"P", "r", "o", "l", "o", "g", "u", "e">>, <<"E", "P", "I", "L", "O", "G", "U", "E">>, <<"I", "t", " ", "r", "a", "i", "n", "e", "d">>, <<"C", "h", "a", "p", "t", "e", "r", "s">>, <<>> }
DetectLengths == {0, HeadingMaxLen - 1, HeadingMaxLen, HeadingMaxLen + 1}
Filled(h, n) == h \o [k \in 1..(n - Len(h)) |-> "x"]
DetectCandidates ==
    { [k \in 1..p |-> " "] \o Filled(h, n) :
          h \in DetectHeads, n \in DetectLengths, p \in 0..MaxPad }

InitDetect ==
    /\ candidate \in DetectCandidates
    /\ verdict = [called |-> FALSE, bookforge |-> FALSE, document_processor |-> FALSE]
    /\ IdleClassify /\ IdleParse /\ IdlePages /\ IdleLayout /\ IdleDocx
    /\ IdleTxt /\ IdleConv /\ IdleCalls /\ IdleServer

NextDetect == Detect

SpecDetect == InitDetect /\ [][NextDetect]_vars


\* ---------------------------------------------------------------------------
\* The API server: project store and request handlers (specification SpecServer)
\* ---------------------------------------------------------------------------
(***************************************************************************)
(* projects maps the ids in the store to their entries; an id is the       *)
(* str(uuid.uuid4()) of create_project, modelled as the next number of a   *)
(* counter (never handed out twice).  An entry keeps the fields whose      *)
(* value decides what a handler below does: status, manuscript_path and    *)
(* manuscript_url as "is set", output_paths as the set of formats it maps  *)
(* (empty: the key is absent; a build always stores html and pdf), and     *)
(* ai_analysis as "is stored".  The entry's config is not kept: the        *)
(* handlers use it only to construct BuildConfig, and whether that         *)
(* succeeds is an input of the build and the preview.  files maps an id to *)
(* what lies in <tmp>/bookforge/<id>: the uploaded manuscript and the      *)
(* built formats; empty directories are not told apart from absent ones.   *)
(* threads holds the analysis threads that were started and have not       *)
(* ended, as pairs of the project id they captured and a serial.           *)
(* A handler is one step, as in a sequence of requests; the analysis       *)
(* thread runs beside the handlers and its store access is a step of its   *)
(* own.                                                                    *)
(***************************************************************************)
MaxProjects == 1
MaxThreads == 1
ProjectIds == 1..MaxProjects
BuiltFormats == {"html", "pdf"}
\* build_outputs adds epub when the conversion succeeds (docx is added the same way)
OptionalFormats == {"epub"}
Formats == BuiltFormats \cup OptionalFormats

\* the dict create_project stores
NewProject ==
    [status |-> "created", manuscript_path |-> FALSE, manuscript_url |-> FALSE,
     output_paths |-> {}, ai_analysis |-> FALSE]
NoFiles == [manuscript |-> FALSE, output |-> {}]
Respond(req, id, code, f) == [request |-> req, id |-> id, code |-> code, file |-> f]
\* d[k] = v on a dict, and del d[k]
Put(d, k, v) == [x \in DOMAIN d \cup {k} |-> IF x = k THEN v ELSE d[x]]
Del(d, k) == [x \in DOMAIN d \ {k} |-> d[x]]
\* what lies in the project's directory; nothing if the directory is absent
FilesOf(id) == IF id \in DOMAIN files THEN files[id] ELSE NoFiles
ThreadsOf(id) == {t \in threads : t[1] = id}

OtherVarsServer ==
    <<classifyVars, parseVars, pagesVars, layoutVars, docxVars,
      txtVars, convVars, detectVars, callsVars>>

\* POST /api/projects
CreateProject ==
    /\ next_id < MaxProjects
    /\ next_id' = next_id + 1
    /\ projects' = Put(projects, next_id + 1, NewProject)
    /\ response' = Respond("create", next_id + 1, 201, "")
    /\ UNCHANGED <<files, threads, OtherVarsServer>>

\* GET /api/projects/<project_id>
GetProject ==
    \E id \in ProjectIds :
        /\ response' = Respond("get", id, IF id \in DOMAIN projects THEN 200 ELSE 404, "")
        /\ UNCHANGED <<projects, next_id, files, threads, OtherVarsServer>>

\* POST /api/projects/<project_id>/upload.  sent: the request carries a file
\* with a name; saved: file.save succeeds; url: the storage upload gave a
\* public URL; analysis: text was extracted and the Gemini client is
\* available, so the analysis thread is started.
UploadInputs ==
    { [sent |-> FALSE, saved |-> FALSE, url |-> FALSE, analysis |-> FALSE],
      [sent |-> TRUE,  saved |-> FALSE, url |-> FALSE, analysis |-> FALSE] }
      \cup { [sent |-> TRUE, saved |-> TRUE, url |-> u, analysis |-> a] : u, a \in BOOLEAN }
UploadManuscript ==
    \E id \in ProjectIds, in \in UploadInputs :
        /\ in.analysis => Cardinality(ThreadsOf(id)) < MaxThreads
        /\ IF id \notin DOMAIN projects
           THEN /\ response' = Respond("upload", id, 404, "")
                /\ UNCHANGED <<projects, files, threads>>
           ELSE IF ~in.sent
           THEN /\ response' = Respond("upload", id, 400, "")
                /\ UNCHANGED <<projects, files, threads>>
           ELSE IF ~in.saved
           THEN /\ response' = Respond("upload", id, 500, "")
                /\ UNCHANGED <<projects, files, threads>>
           ELSE /\ files' = Put(files, id, [FilesOf(id) EXCEPT !.manuscript = TRUE])
                /\ projects' = [projects EXCEPT ![id].manuscript_path = TRUE,
                                                ![id].manuscript_url = in.url,
                                                ![id].status = "uploaded"]
                /\ threads' = IF in.analysis
                              THEN threads \cup {<<id, Cardinality(ThreadsOf(id)) + 1>>}
                              ELSE threads
                /\ response' = Respond("upload", id, 200, "")
        /\ UNCHANGED <<next_id, OtherVarsServer>>

\* analyze_background reaches its end.  stored: the model answered with JSON,
\* so line 414 runs: projects[project_id]['ai_analysis'] = analysis looks the
\* entry up first; for an id that is gone this raises KeyError, which the
\* "except Exception" of the thread swallows.
analysis_stored_create(ps, id) ==
    IF id \in DOMAIN ps THEN [ps EXCEPT ![id].ai_analysis = TRUE]
    ELSE Put(ps, id, [NewProject EXCEPT !.ai_analysis = TRUE])

analysis_stored(ps, id) ==
    IF id \in DOMAIN ps THEN [ps EXCEPT ![id].ai_analysis = TRUE] ELSE ps

AnalyzeBackground ==
    \E id \in ProjectIds, stored \in BOOLEAN :
        /\ ThreadsOf(id) # {}
        /\ threads' = threads \ {<<id, Cardinality(ThreadsOf(id))>>}
        /\ projects' = IF stored THEN analysis_stored(projects, id) ELSE projects
        /\ UNCHANGED <<next_id, files, response, OtherVarsServer>>

\* What happens to a build or preview after the manuscript was located:
\* the download of manuscript_url fails, BuildConfig refuses the
\* configuration, the renderer is not installed, build_outputs raises, or
\* the formats are built (html and pdf, and the optional ones that could be).
BuildOutcomes == {"fetch failed", "invalid config", "no weasyprint", "render failed", "built"}

\* POST /api/projects/<project_id>/build.  Every way out but the last returns
\* an error and writes nothing to the entry.
BuildBook ==
    \E id \in ProjectIds, outcome \in BuildOutcomes, optional \in SUBSET OptionalFormats :
        /\ outcome # "built" => optional = {}
        /\ IF id \notin DOMAIN projects
           THEN /\ response' = Respond("build", id, 404, "")
                /\ UNCHANGED <<projects, files>>
           ELSE LET project == projects[id]
                    on_disk == project.manuscript_path /\ FilesOf(id).manuscript
                    failed(code) ==
                        /\ response' = Respond("build", id, code, "")
                        /\ UNCHANGED projects
                IN  IF ~project.manuscript_path /\ ~project.manuscript_url
                    THEN failed(400) /\ UNCHANGED files
                    ELSE IF ~on_disk /\ ~project.manuscript_url
                    THEN failed(400) /\ UNCHANGED files
                    ELSE IF ~on_disk /\ outcome = "fetch failed"
                    THEN failed(500) /\ UNCHANGED files
                    ELSE IF outcome = "invalid config"
                    THEN failed(400) /\ UNCHANGED files
                    ELSE IF outcome \in {"no weasyprint", "render failed"}
                    THEN failed(500) /\ UNCHANGED files
                    ELSE /\ files' = Put(files, id,
                                [FilesOf(id) EXCEPT !.output = @ \cup BuiltFormats \cup optional])
                         /\ projects' = [projects EXCEPT
                                ![id].output_paths = BuiltFormats \cup optional,
                                ![id].status = "completed"]
                         /\ response' = Respond("build", id, 200, "")
        /\ UNCHANGED <<next_id, threads, OtherVarsServer>>

\* GET or POST /api/projects/<project_id>/preview: the preview PDF is built
\* in a directory of its own and sent; of the entry only config is written
PreviewBook ==
    \E id \in ProjectIds, outcome \in BuildOutcomes :
        /\ response' =
             IF id \notin DOMAIN projects THEN Respond("preview", id, 404, "")
             ELSE LET project == projects[id]
                      on_disk == project.manuscript_path /\ FilesOf(id).manuscript
                  IN  IF ~project.manuscript_path /\ ~project.manuscript_url
                      THEN Respond("preview", id, 400, "")
                      ELSE IF outcome \in {"no weasyprint", "invalid config"}
                      THEN Respond("preview", id, 500, "")
                      ELSE IF ~on_disk /\ ~project.manuscript_url
                      THEN Respond("preview", id, 400, "")
                      ELSE IF outcome # "built"
                      THEN Respond("preview", id, 500, "")
                      ELSE Respond("preview", id, 200, "preview.pdf")
        /\ UNCHANGED <<projects, next_id, files, threads, OtherVarsServer>>

\* the download handler without the test of the status
download_book_any_status(project, on_disk, format) ==
    IF format \notin project.output_paths THEN [code |-> 404, file |-> ""]
    ELSE IF format \notin on_disk THEN [code |-> 404, file |-> ""]
    ELSE [code |-> 200, file |-> format]

\* download_book after the lookup of the project: 400 unless the status is
\* 'completed', 404 for a format that was not built or whose file is gone,
\* else the file
download_book(project, on_disk, format) ==
    IF project.status # "completed" THEN [code |-> 400, file |-> ""]
    ELSE IF format \notin project.output_paths THEN [code |-> 404, file |-> ""]
    ELSE IF format \notin on_disk THEN [code |-> 404, file |-> ""]
    ELSE [code |-> 200, file |-> format]

\* GET /api/projects/<project_id>/download/<format>
DownloadBook ==
    \E id \in ProjectIds, format \in Formats \cup {"mobi"} :
        /\ response' =
             IF id \notin DOMAIN projects THEN Respond("download", id, 404, "")
             ELSE LET r == download_book(projects[id], FilesOf(id).output, format)
                  IN  Respond("download", id, r.code, r.file)
        /\ UNCHANGED <<projects, next_id, files, threads, OtherVarsServer>>

\* DELETE /api/projects/<project_id>: the project's directory is removed,
\* then the entry
DeleteProject ==
    \E id \in ProjectIds :
        /\ IF id \notin DOMAIN projects
           THEN /\ response' = Respond("delete", id, 404, "")
                /\ UNCHANGED <<projects, files>>
           ELSE /\ files' = Del(files, id)
                /\ projects' = Del(projects, id)
                /\ response' = Respond("delete", id, 200, "")
        /\ UNCHANGED <<next_id, threads, OtherVarsServer>>

\* projects = {} and nothing requested yet
InitServer ==
    /\ projects = <<>> /\ next_id = 0 /\ files = <<>> /\ threads = {}
    /\ response = Respond("none", 0, 0, "")
    /\ IdleClassify /\ IdleParse /\ IdlePages /\ IdleLayout /\ IdleDocx
    /\ IdleTxt /\ IdleConv /\ IdleDetect /\ IdleCalls

NextServer ==
    \/ CreateProject \/ GetProject \/ UploadManuscript \/ AnalyzeBackground
    \/ BuildBook \/ PreviewBook \/ DownloadBook \/ DeleteProject

SpecServer == InitServer /\ [][NextServer]_vars

(***************************************************************************)
(* Properties of parse_manuscript (specification Spec).                    *)
(***************************************************************************)
KindOf(l)  == detect_content_type(Strip(l))[1]
BlockTexts(bs) == [i \in 1..Len(bs) |-> bs[i].text]
KindText(bs) == [i \in 1..Len(bs) |-> <<bs[i].content_type, bs[i].text>>]
Consumed   == SubSeq(lines, 1, idx - 1)
Running    == pc \in {"loop", "done"}

ExampleBlocks ==
    << <<CHAPTER_HEADING, ExampleLines[1]>>,
       <<PARAGRAPH, ExampleLines[3]>>,
       <<SCENE_BREAK, <<>>>>,
       <<PARAGRAPH, ExampleLines[7]>> >>

\* C1: a paragraph followed by three or more blank lines and then further
\* content yields Paragraph, SceneBreak(""), and then the following content;
\* the worked example parses to exactly ChapterHeading, Paragraph,
\* SceneBreak(""), Paragraph.
C1_SceneBreakAfterThreeBlanks ==
    pc = "done" =>
        /\ content = ExampleContent => KindText(blocks) = ExampleBlocks
        /\ \A i \in 1..Len(lines) :
              ( /\ i + 4 <= Len(lines)
                /\ KindOf(lines[i]) = PARAGRAPH
                /\ \A j \in (i + 1)..(i + 3) : KindOf(lines[j]) = BLANK
                /\ KindOf(lines[i + 4]) # BLANK )
              => \E k \in 2..(Len(blocks) - 1) :
                    /\ blocks[k - 1].content_type = PARAGRAPH
                    /\ blocks[k].content_type = SCENE_BREAK
                    /\ blocks[k].text = <<>>

\* C2: the texts of the emitted blocks followed by the pending paragraph
\* lines are, in order and up to whitespace, exactly the lines consumed so
\* far (nothing dropped, nothing twice), the heading and scene-break
\* blocks are, in order, exactly the consumed heading and scene-break lines,
\* and nothing is left pending when the parser returns.
C2_NoLineLostOrDuplicated ==
    Running =>
        /\ pc = "done" => (current_paragraph_lines = <<>> /\ idx = Len(lines) + 1)
        /\ Strip(CollapseWs(Join(<<" ">>, BlockTexts(blocks) \o current_paragraph_lines)))
              = Strip(CollapseWs(Join(<<" ">>, Consumed)))
        /\ BlockTexts(SelectSeq(blocks, LAMBDA b : b.content_type # PARAGRAPH))
              = [i \in 1..Len(SelectSeq(Consumed, LAMBDA l : KindOf(l) \in HeadingKinds))
                    |-> Strip(SelectSeq(Consumed, LAMBDA l : KindOf(l) \in HeadingKinds)[i])]

C2_Witness ==
    /\ pc = "done"
    /\ Len(blocks) = 3
    /\ blocks[1].content_type = PARAGRAPH
    /\ blocks[2].content_type = CHAPTER_HEADING
    /\ blocks[3].content_type = PARAGRAPH
    /\ blocks[1].text # blocks[3].text

\* C3: no Paragraph block has empty text.
C3_NoEmptyParagraph ==
    \A i \in 1..Len(blocks) :
        blocks[i].content_type = PARAGRAPH => blocks[i].text # <<>>

\* a paragraph was emitted, and later flushes (two blank lines, the end of
\* input) found the buffer empty and emitted nothing
C3_Witness ==
    /\ pc = "done"
    /\ Len(lines) >= 3
    /\ KindOf(lines[Len(lines)]) = BLANK
    /\ KindOf(lines[Len(lines) - 1]) = BLANK
    /\ Len(blocks) = 1
    /\ blocks[1].content_type = PARAGRAPH

\* C4: a heading or scene-break line that arrives while paragraph lines are
\* pending appends exactly two blocks: the pending lines as one Paragraph,
\* then the heading block with that line's text only; the buffer is empty
\* afterwards.
C4_HeadingFlushesFirst ==
    [][ ( /\ pc = "loop"
          /\ idx <= Len(lines)
          /\ KindOf(lines[idx]) \in HeadingKinds
          /\ current_paragraph_lines # <<>> )
        => /\ Len(blocks') = Len(blocks) + 2
           /\ SubSeq(blocks', 1, Len(blocks)) = blocks
           /\ blocks'[Len(blocks) + 1].content_type = PARAGRAPH
           /\ blocks'[Len(blocks) + 1].text
                 = Strip(CollapseWs(Join(<<" ">>, current_paragraph_lines)))
           /\ blocks'[Len(blocks) + 2].content_type = KindOf(lines[idx])
           /\ blocks'[Len(blocks) + 2].text = Strip(lines[idx])
           /\ current_paragraph_lines' = <<>>
           /\ blank_count' = 0 ]_vars

\* a back-matter heading arrived right after two prose lines
C4_Witness ==
    /\ pc = "loop"
    /\ idx = 4
    /\ KindOf(lines[1]) = PARAGRAPH
    /\ KindOf(lines[2]) = PARAGRAPH
    /\ KindOf(lines[3]) = BACK_MATTER_HEADING
    /\ Len(blocks) = 2
    /\ current_paragraph_lines = <<>>

C9_LevelMatchesKind ==
    \A i \in 1..Len(blocks) :
        blocks[i].level =
            IF blocks[i].content_type = CHAPTER_HEADING THEN 1
            ELSE IF blocks[i].content_type \in {FRONT_MATTER_HEADING, BACK_MATTER_HEADING} THEN 2
            ELSE 0

(***************************************************************************)
(* Properties of detect_content_type (specification SpecClassify).         *)
(***************************************************************************)
Returned == result # NoResult
IsChapter(u) == MatchesAny(CHAPTER_PATTERNS, u)
IsFront(u)   == MatchesAny(FRONT_MATTER_PATTERNS, u)
IsBack(u)    == MatchesAny(BACK_MATTER_PATTERNS, u)

ExChapterLine == <<"C", "H", "A", "P", "T", "E", "R", " ", "O", "N", "E", ":", " ",
                   "T", "h", "e", " ", "B", "e", "g", "i", "n", "n", "i", "n", "g">>
ExBackLine    == <<"A", "b", "o", "u", "t", " ", "t", "h", "e", " ",
                   "A", "u", "t", "h", "o", "r">>
ExOrnamentLine == <<"*", " ", "*", " ", "*">>

\* C5: detect_content_type returns, for every line, the value of the first
\* rule that applies, in the order blank, scene-break ornament, chapter,
\* front matter, back matter, paragraph; the four worked examples classify
\* as (ChapterHeading, 1), (back SectionHeading, 2), (Blank, 0), (SceneBreak, 0).
C5_ClassifierPrecedence ==
    Returned =>
        LET s == Strip(line)
            u == Upper(s)
        IN  /\ result[1] \in ContentType /\ result[2] \in {0, 1, 2}
            /\ s = <<>> => result = <<BLANK, 0>>
            /\ (s # <<>> /\ IsOrnament(s)) => result = <<SCENE_BREAK, 0>>
            /\ (s # <<>> /\ ~IsOrnament(s) /\ IsChapter(u)) => result = <<CHAPTER_HEADING, 1>>
            /\ (s # <<>> /\ ~IsOrnament(s) /\ ~IsChapter(u) /\ IsFront(u))
                  => result = <<FRONT_MATTER_HEADING, 2>>
            /\ (s # <<>> /\ ~IsOrnament(s) /\ ~IsChapter(u) /\ ~IsFront(u) /\ IsBack(u))
                  => result = <<BACK_MATTER_HEADING, 2>>
            /\ (s # <<>> /\ ~IsOrnament(s) /\ ~IsChapter(u) /\ ~IsFront(u) /\ ~IsBack(u))
                  => result = <<PARAGRAPH, 0>>
            /\ line = ExChapterLine => result = <<CHAPTER_HEADING, 1>>
            /\ line = ExBackLine => result = <<BACK_MATTER_HEADING, 2>>
            /\ line = <<>> => result = <<BLANK, 0>>
            /\ line = ExOrnamentLine => result = <<SCENE_BREAK, 0>>

C5_Witness == Returned /\ line = ExOrnamentLine /\ result = <<SCENE_BREAK, 0>>

\* C6: a line of more than 200 characters that matches a chapter,
\* front-matter or back-matter pattern is classified as Paragraph.
C6_LongHeadingIsParagraph ==
    ( /\ Returned
      /\ Len(Strip(line)) > HeadingMaxLen
      /\ LET u == Upper(Strip(line)) IN IsChapter(u) \/ IsFront(u) \/ IsBack(u) )
    => result = <<PARAGRAPH, 0>>

FrontHeadingNames ==
    { sDEDICATION,
      sACKNOWLEDGMENT, sACKNOWLEDGMENT \o <<"S">>,
      sACKNOWLEDGEMENT, sACKNOWLEDGEMENT \o <<"S">>,
      sPREFACE, sFOREWORD, sINTRODUCTION,
      sNOTE \o <<" ">> \o sTO \o <<" ">> \o sREADER,
      sAUTHOR \o <<"'", "S", " ">> \o sNOTE }

\* C7: each listed front-matter heading alone on a line, in any letter case,
\* is classified as a front-matter section heading with level 2.
C7_FrontMatterNames ==
    (Returned /\ Upper(Strip(line)) \in FrontHeadingNames)
        => result = <<FRONT_MATTER_HEADING, 2>>

(***************************************************************************)
(* Properties of guess_pages_from_wordcount (specification SpecPages).     *)
(***************************************************************************)
HasWord(txt) == \E i \in 1..Len(txt) : txt[i] \in WordSet

AllBlank == \A i \in 1..Len(lines) : KindOf(lines[i]) = BLANK

C11_BlankInputNoBlocks ==
    (Running /\ AllBlank) =>
        /\ blocks = <<>>
        /\ current_paragraph_lines = <<>>
        /\ pc # "done" => ENABLED Next
        /\ pc = "done" => idx = Len(lines) + 1

\* the parser returned on three lines that are empty or whitespace-only
C11_Witness ==
    /\ pc = "done"
    /\ AllBlank
    /\ Len(lines) = 3
    /\ \E i \in 1..3 : lines[i] # <<>>
    /\ blocks = <<>>

\* the parser returned on the empty string
C11_WitnessEmpty ==
    pc = "done" /\ content = <<>> /\ lines = << <<>> >> /\ blocks = <<>>

(***************************************************************************)
(* Properties of the cover and page geometry (specification SpecLayout).   *)
(***************************************************************************)
\* C12: cover_dimensions called with a trim key the catalog does not hold
\* raises and returns no width, height or spine, whatever the page count,
\* paper and bleed.
C12_UnknownTrimFails ==
    (layout_call = "cover_dimensions" /\ trim_key \notin DOMAIN TRIM_PRESETS) =>
        /\ layout_out.raised = "KeyError"
        /\ layout_out.width = 0 /\ layout_out.height = 0 /\ layout_out.spine = 0

\* cover_dimensions("unknown_trim", 300, "cream_55lb") has raised
C12_Witness ==
    /\ layout_call = "cover_dimensions"
    /\ trim_key = "unknown_trim" /\ page_count = 300 /\ paper = "cream_55lb"
    /\ layout_out.raised = "KeyError"

\* C13: every operation that derives page geometry from a trim key
\* (cover_dimensions, render_base_css, the DOCX page-size lookup) raises on
\* a key the catalog does not hold and yields no width or height.
C13_NoTrimSubstituted ==
    ( /\ layout_call \in {"cover_dimensions", "render_base_css", "render_base_css again",
                           "_trim_to_width"}
      /\ trim_key \notin DOMAIN TRIM_PRESETS )
    => /\ layout_out.raised # ""
       /\ layout_out.width = 0 /\ layout_out.height = 0

Abs(n) == IF n < 0 THEN -n ELSE n

\* C14: with a paper key the catalog does not hold, calc_spine_width_in
\* does not raise and returns what it returns for cream_55lb (444 pages per
\* inch) at the same page count, also when cover_dimensions calls it.
C14_UnknownPaperIsCream ==
    ( /\ paper \notin DOMAIN PAPER_STOCKS
      /\ \/ layout_call = "calc_spine_width_in"
         \/ layout_call = "cover_dimensions" /\ trim_key \in DOMAIN TRIM_PRESETS )
    => /\ layout_out.raised = ""
       /\ layout_out.spine = calc_spine_width_in(page_count, "cream_55lb")
       /\ 2 * Abs(layout_out.spine * 444 - page_count * 1000) <= 444

\* the spine of 300 pages on an unknown paper came out as for cream_55lb
C14_Witness ==
    /\ layout_call = "calc_spine_width_in"
    /\ paper = "unknown_paper" /\ page_count = 300
    /\ layout_out.raised = "" /\ layout_out.spine = 676

\* C15: the spine width is page_count / pages_per_inch of the paper,
\* rounded to the nearest thousandth of an inch; 300 pages of cream_55lb
\* give 0.676.
C15_SpineIsRoundedQuotient ==
    layout_call = "calc_spine_width_in" =>
        LET ppi == IF paper = "white_50lb" THEN 512 ELSE 444
        IN  /\ 2 * Abs(layout_out.spine * ppi - page_count * 1000) <= ppi
            /\ (page_count = 300 /\ paper = "cream_55lb") => layout_out.spine = 676

\* the spine of 300 pages of cream_55lb, and one of white_50lb
\* (100 * 1000 / 512 = 195.3125) that is not a whole number of thousandths
C15_Witness ==
    /\ layout_call = "calc_spine_width_in"
    /\ \/ page_count = 300 /\ paper = "cream_55lb" /\ layout_out.spine = 676
       \/ page_count = 100 /\ paper = "white_50lb" /\ layout_out.spine = 195

\* C16: for a catalog trim, the cover is 2 * trim width + spine + 2 * bleed
\* wide and trim height + 2 * bleed high, the bleed being 0.125 when
\* requested and 0 otherwise; ("6x9", 300, "cream_55lb", no bleed) is
\* 12.676 wide.
C16_CoverWidthHeight ==
    (layout_call = "cover_dimensions" /\ trim_key \in DOMAIN TRIM_PRESETS) =>
        LET b == IF bleed THEN 125 ELSE 0
        IN  /\ layout_out.raised = ""
            /\ layout_out.spine = calc_spine_width_in(page_count, paper)
            /\ layout_out.width
                  = 2 * TRIM_PRESETS[trim_key].width_in + layout_out.spine + 2 * b
            /\ layout_out.height = TRIM_PRESETS[trim_key].height_in + 2 * b
            /\ ( /\ trim_key = "6x9" /\ page_count = 300
                 /\ paper = "cream_55lb" /\ ~bleed ) => layout_out.width = 12676

\* a cover with bleed was computed: 5.5x8.5, 300 pages of white_50lb
C16_Witness ==
    /\ layout_call = "cover_dimensions"
    /\ trim_key = "5.5x8.5" /\ page_count = 300 /\ paper = "white_50lb" /\ bleed
    /\ layout_out = [NoDimensions EXCEPT !.width = 11836, !.height = 8750, !.spine = 586]

\* C17: the suggested gutter is 0.6 below 150 pages, 0.7 from 150 to 299,
\* 0.8 from 300 to 499 and 0.9 from 500 on.
C17_GutterBrackets ==
    layout_call = "suggested_gutter" =>
        /\ page_count < 150 => layout_out.gutter = 600
        /\ (150 <= page_count /\ page_count < 300) => layout_out.gutter = 700
        /\ (300 <= page_count /\ page_count < 500) => layout_out.gutter = 800
        /\ 500 <= page_count => layout_out.gutter = 900

\* the gutter was suggested for a page count on a bracket boundary
C17_Witness ==
    /\ layout_call = "suggested_gutter"
    /\ \/ page_count = 150 /\ layout_out.gutter = 700
       \/ page_count = 300 /\ layout_out.gutter = 800
       \/ page_count = 500 /\ layout_out.gutter = 900

(***************************************************************************)
(* Further properties of guess_pages_from_wordcount (SpecPages).           *)
(***************************************************************************)
\* C18: for a text of wc >= 1 words and wpp = 350 words per page at a font
\* size of at most 11pt, 300 above, the estimate r is at least 1, is within
\* one half of wc / wpp whenever wc / wpp >= 1, and the 350-word bucket
\* never gives more pages than the 300-word bucket for the same text.
C18_NearestPageCount ==
    (called = "returned" /\ file.readable /\ WordCount(file.txt) >= 1) =>
        LET wc  == WordCount(file.txt)
            wpp == IF font_size_pt <= 110 THEN 350 ELSE 300
            r   == pages.val
        IN  /\ pages.some
            /\ r >= 1
            /\ wc >= wpp => 2 * Abs(r * wpp - wc) <= wpp
            /\ font_size_pt <= 110 =>
                  \A fs \in {f \in FontSizes : f > 110} :
                      r <= guess_pages_from_wordcount(file, fs).val
            /\ font_size_pt > 110 =>
                  \A fs \in {f \in FontSizes : f <= 110} :
                      r >= guess_pages_from_wordcount(file, fs).val

\* 625 words at 11pt gave 2 pages (625 / 350 = 1.79)
C18_Witness ==
    /\ called = "returned"
    /\ file.readable /\ WordCount(file.txt) = 625
    /\ font_size_pt = 110
    /\ pages = Some(2)

\* 450 words: 1 page at 11pt, 2 pages (450 / 300 = 1.5, half to even) at 12pt
C18_WitnessBuckets ==
    /\ called = "returned"
    /\ file.readable /\ WordCount(file.txt) = 450
    /\ font_size_pt = 120
    /\ pages = Some(2)
    /\ guess_pages_from_wordcount(file, 110) = Some(1)

(***************************************************************************)
(* Properties of clean_chapter_title and of the rendering loop of          *)
(* create_professional_docx (specification SpecDocx).                      *)
(***************************************************************************)
IsPrefix(a, b) == Len(a) <= Len(b) /\ SubSeq(b, 1, Len(a)) = a
IsSuffix(a, b) == Len(a) <= Len(b) /\ SubSeq(b, Len(b) - Len(a) + 1, Len(b)) = a
Rendering == docx_pc = "loop" /\ block_i <= Len(docx_blocks)
LastOf(d) == d[Len(d)]

\* C19: a chapter heading "CHAPTER <digits>: CHAPTER <word-form>: <title>",
\* or the same with the two labels exchanged, is rendered as a paragraph
\* that begins with the word-form label and a colon and ends with <title>.
C19_CollapseKeepsTitle ==
    [][ (Rendering /\ docx_blocks[block_i].content_type = CHAPTER_HEADING) =>
          LET t  == docx_blocks[block_i].text
              m1 == MatchSpans(NUM_THEN_WORD, 1, t, 1)
              m2 == MatchSpans(WORD_THEN_NUM, 1, t, 1)
              g  == Len(NUM_LABEL) + Len(COLON_WS) + 1
              out == LastOf(doc').text
          IN  /\ m1 # <<>> =>
                   /\ IsPrefix(SubSeq(t, m1[g], m1[Len(m1)] - 1), out)
                   /\ IsSuffix(Strip(SubSeq(t, m1[Len(m1)], Len(t))), out)
                   /\ Len(out) >= m1[Len(m1)] - m1[g] + Len(Strip(SubSeq(t, m1[Len(m1)], Len(t))))
              /\ (m1 = <<>> /\ m2 # <<>>) =>
                   /\ IsPrefix(SubSeq(t, 1, m2[Len(WORD_LABEL) + 1] - 1) \o <<":">>, out)
                   /\ IsSuffix(Strip(SubSeq(t, m2[Len(m2)], Len(t))), out)
                   /\ Len(out) >= m2[Len(WORD_LABEL) + 1] + Len(Strip(SubSeq(t, m2[Len(m2)], Len(t))))
      ]_vars

\* C20: a chapter heading whose text matches neither collapse pattern is
\* rendered with its text unchanged, and the text of a front-matter,
\* back-matter or Paragraph block is rendered exactly as the block holds it,
\* a SceneBreak block as the configured symbol: clean_chapter_title is
\* applied to chapter headings only.
C20_OnlyChapterHeadingsCleaned ==
    [][ Rendering =>
          LET b  == docx_blocks[block_i]
              t  == b.text
              m1 == MatchSpans(NUM_THEN_WORD, 1, t, 1)
              m2 == MatchSpans(WORD_THEN_NUM, 1, t, 1)
          IN  /\ (b.content_type = CHAPTER_HEADING /\ m1 = <<>> /\ m2 = <<>>) =>
                    LastOf(doc') = Paragraph(t, "ChapterHeading")
              /\ b.content_type \in {FRONT_MATTER_HEADING, BACK_MATTER_HEADING} =>
                    /\ Len(doc') = Len(doc) + 2
                    /\ LastOf(doc') = Paragraph(t, "SectionHeading")
              /\ b.content_type = PARAGRAPH =>
                    /\ Len(doc') = Len(doc) + 1
                    /\ LastOf(doc').text = t
                    /\ LastOf(doc').style \in {"FirstParagraph", "BodyText"}
              /\ b.content_type = SCENE_BREAK =>
                    /\ Len(doc') = Len(doc) + 1
                    /\ LastOf(doc') = Paragraph(config.scene_break_symbol, "SceneBreak")
      ]_vars

\* a paragraph that reads like a doubly labelled heading was rendered as it
\* is, after a chapter heading that matches neither pattern was
C20_Witness ==
    /\ docx_pc = "saved"
    /\ Len(docx_blocks) = 2
    /\ docx_blocks[1].content_type = CHAPTER_HEADING
    /\ clean_chapter_title(docx_blocks[1].text) = docx_blocks[1].text
    /\ docx_blocks[2].content_type = PARAGRAPH
    /\ MatchSpans(NUM_THEN_WORD, 1, docx_blocks[2].text, 1) # <<>>
    /\ LastOf(doc) = Paragraph(docx_blocks[2].text, "FirstParagraph")
    /\ doc[Len(doc) - 1] = Paragraph(docx_blocks[1].text, "ChapterHeading")

(***************************************************************************)
(* Properties of txt_to_html_with_chapters (specification SpecTxt).        *)
(***************************************************************************)
TerminalPunctuation == {".", "!", "?"}
TxtRunning == txt_pc = "loop" /\ txt_i <= Len(txt_lines)

\* the line after line i is non-blank, under 100 characters, not a chapter
\* heading and does not end in terminal punctuation
IsSubtitle(ls, i) ==
    /\ i + 1 <= Len(ls)
    /\ Strip(ls[i + 1]) # <<>>
    /\ ~detect_chapter_heading(ls[i + 1])
    /\ Len(Strip(ls[i + 1])) < 100
    /\ Strip(ls[i + 1])[Len(Strip(ls[i + 1]))] \notin TerminalPunctuation

\* C21: when the loop reaches a chapter heading, the next line is merged
\* into the heading, and then skipped without output, exactly if it is
\* non-blank, under 100 characters, not a chapter heading and does not end
\* in terminal punctuation; otherwise the heading stands alone and the next
\* line is processed normally.
C21_SubtitleMerged ==
    [][ /\ (TxtRunning /\ ~skip_next /\ IsTxtHeading(txt_lines[txt_i])) =>
             LET stripped == Strip(txt_lines[txt_i])
             IN  IF IsSubtitle(txt_lines, txt_i)
                 THEN /\ skip_next'
                      /\ html_lines'[Len(html_lines')]
                            = tH1(stripped \o <<":", " ">> \o Strip(txt_lines[txt_i + 1]))
                 ELSE /\ ~skip_next'
                      /\ html_lines'[Len(html_lines')] = tH1(stripped)
        /\ (TxtRunning /\ skip_next) => (html_lines' = html_lines /\ ~skip_next')
      ]_vars

\* the tags of h from position k on close what was opened last, given the
\* elements open so far, and leave nothing open
RECURSIVE WellNested(_, _, _)
WellNested(h, k, open) ==
    IF k > Len(h) THEN open = <<>>
    ELSE IF h[k] = tPOpen THEN WellNested(h, k + 1, open \o <<"p">>)
    ELSE IF IsPrefix(<<"<", "s", "e", "c", "t", "i", "o", "n">>, h[k]) THEN WellNested(h, k + 1, open \o <<"section">>)
    ELSE IF h[k] = tPClose
    THEN /\ open # <<>> /\ open[Len(open)] = "p"
         /\ WellNested(h, k + 1, SubSeq(open, 1, Len(open) - 1))
    ELSE IF h[k] = tSectionClose
    THEN /\ open # <<>> /\ open[Len(open)] = "section"
         /\ WellNested(h, k + 1, SubSeq(open, 1, Len(open) - 1))
    ELSE WellNested(h, k + 1, open)

\* C26: in the returned tag stream every </p> and </section> closes the
\* element opened last, so a <p> is closed before its enclosing section
\* is, and every section opened is closed exactly once.
C26_TagsProperlyNested ==
    txt_pc = "done" => WellNested(html_lines, 1, <<>>)

(***************************************************************************)
(* Re-parsing the parser's own output (specification SpecDocx, whose       *)
(* first step is blocks = parse_manuscript(content)).                      *)
(***************************************************************************)
\* each block's text on its own line, blocks separated by a blank line
RenderPlain(bs) == Join(<<"\n", "\n">>, [i \in 1..Len(bs) |-> bs[i].text])
KindsOf(bs) == [i \in 1..Len(bs) |-> bs[i].content_type]

\* C22: parsing the plain-text rendering of the parsed blocks gives blocks
\* of the same kinds in the same order.
C22_ReparseStable ==
    docx_pc # "start" =>
        KindsOf(parse_manuscript(RenderPlain(docx_blocks))) = KindsOf(docx_blocks)

(***************************************************************************)
(* Properties of interleaved parser invocations (specification SpecCalls). *)
(***************************************************************************)
\* C23: however the steps of two parse_manuscript invocations on different
\* inputs interleave, a step of one leaves the argument and locals of the
\* other as they were, and an invocation that has returned holds exactly
\* the blocks parse_manuscript gives for its input when run alone.
C23_CallsIndependent ==
    [][ \A c \in DOMAIN calls :
          /\ calls'[c] # calls[c] => \A k \in DOMAIN calls \ {c} : calls'[k] = calls[k]
          /\ calls'[c].pc = "done" =>
                calls'[c].blocks = parse_manuscript(calls'[c].content)
      ]_vars

\* both invocations are inside their loops: the first holds a pending
\* paragraph line and no block, the second has emitted a heading block and
\* holds no pending line
C23_Witness ==
    /\ calls[1].pc = "loop" /\ calls[2].pc = "loop"
    /\ calls[1].idx = 2 /\ calls[1].current_paragraph_lines # <<>> /\ calls[1].blocks = <<>>
    /\ calls[2].idx = 2 /\ calls[2].current_paragraph_lines = <<>>
    /\ Len(calls[2].blocks) = 1 /\ calls[2].blocks[1].content_type = CHAPTER_HEADING
    /\ Len(calls[1].lines) = 2 /\ Len(calls[2].lines) = 2

(***************************************************************************)
(* Properties of the unit conversion (specification SpecLayout).           *)
(***************************************************************************)
\* mm, in thousandths of a millimetre, is x thousandths of an inch times
\* 25.4, rounded to the nearest thousandth
IsRounded254(mm, x) == 2 * Abs(mm * 10 - x * 254) <= 10

\* C24: render_base_css gives the page width and height of the trim preset
\* and the four margins of the configuration in millimetres, each the inch
\* value times 25.4 rounded to 3 decimals, and gives exactly the same
\* values when it is called again with the same configuration.
C24_InchToMmReproducible ==
    [][ ( /\ layout_call' \in {"render_base_css", "render_base_css again"}
          /\ layout_call' # layout_call
          /\ trim_key \in DOMAIN TRIM_PRESETS )
        => /\ layout_out'.raised = ""
           /\ IsRounded254(layout_out'.width, TRIM_PRESETS[trim_key].width_in)
           /\ IsRounded254(layout_out'.height, TRIM_PRESETS[trim_key].height_in)
           /\ \A f \in DOMAIN margins : IsRounded254(layout_out'.margins[f], margins[f])
           /\ layout_call' = "render_base_css again" => layout_out' = layout_out
      ]_vars

\* the sheet was rendered a second time for 5.5x8.5 with margins that need
\* rounding: 0.667in is 16.942mm, 0.333in is 8.458mm, 1.002in is 25.451mm
C24_Witness ==
    /\ layout_call = "render_base_css again"
    /\ trim_key = "5.5x8.5"
    /\ layout_out.width = 139700 /\ layout_out.height = 215900
    /\ layout_out.margins = [top_margin_in |-> 16942, bottom_margin_in |-> 8458,
                             gutter_in |-> 25, outer_margin_in |-> 25451]


\* C25: the loop step that renders a chapter heading puts a page break in
\* front of it exactly when an earlier chapter heading was rendered before:
\* the first chapter heading of the document gets none, whatever
\* include_title_page is, and every later one gets one.
C25_PageBreakExceptFirst ==
    [][ ( /\ docx_pc = "loop"
          /\ block_i <= Len(docx_blocks)
          /\ block_i' = block_i + 1
          /\ docx_blocks[block_i].content_type = CHAPTER_HEADING )
        => LET added == SubSeq(doc', Len(doc) + 1, Len(doc'))
           IN  /\ IsPrefix(doc, doc')
               /\ LastOf(added).style = "ChapterHeading"
               /\ IF chapter_count = 0
                  THEN Len(added) = 1
                  ELSE Len(added) = 2 /\ added[1] = PageBreak
      ]_vars


\* C27: when detect_and_convert_chapters_in_html has returned, the lines it
\* built hold as many closing </section> tags as opening
\* <section class="chapter" ...> tags.
SectionOpens(ls) == Cardinality({k \in 1..Len(ls) : IsPrefix(<<"<", "s", "e", "c", "t", "i", "o", "n", " ", "c", "l", "a", "s", "s", "=", "\"", "c", "h", "a", "p", "t", "e", "r", "\"">>, ls[k])})
SectionCloses(ls) == Cardinality({k \in 1..Len(ls) : ls[k] = tSectionClose})
C27_SectionsBalanced ==
    conv_pc = "returned" => SectionCloses(processed_lines) = SectionOpens(processed_lines)


\* C28: on every line the two chapter-heading detectors give the same
\* answer: bookforge's test (detect_chapter_heading and a stripped length
\* under 200) holds exactly when _is_chapter_heading holds.
C28_DetectorsAgree == verdict.called => (verdict.bookforge <=> verdict.document_processor)


\* C29: in the project store, on every request step: a status becomes
\* 'completed' only by a build that answers 200 for that project and leaves
\* its output_paths set; a download answers with a file only for a project
\* whose status is 'completed'; a build that does not answer 200 leaves
\* status and output_paths of every project as they were; and an upload
\* that succeeds leaves the status 'uploaded', so that a download of that
\* project is then refused with 400.
BuildSucceeded(id) == response'.request = "build" /\ response'.id = id /\ response'.code = 200
C29_CompletedOnlyByBuild ==
    [][ /\ \A id \in DOMAIN projects' :
              ( /\ projects'[id].status = "completed"
                /\ (id \notin DOMAIN projects \/ projects[id].status # "completed") )
              => BuildSucceeded(id) /\ projects'[id].output_paths # {}
        /\ \A id \in DOMAIN projects :
              projects[id].status = "completed" => projects[id].output_paths # {}
        /\ ( response'.request = "download" /\ response'.file # "" )
              => /\ response'.id \in DOMAIN projects
                 /\ projects[response'.id].status = "completed"
                 /\ response'.code = 200
        /\ ( response'.request = "build" /\ response'.code # 200 /\ response' # response )
              => projects' = projects
        /\ ( response'.request = "upload" /\ response'.code = 200 /\ response' # response )
              => /\ projects'[response'.id].status = "uploaded"
                 /\ \A f \in Formats :
                       download_book(projects'[response'.id],
                                     FilesOf(response'.id).output, f).code = 400
      ]_vars

\* a project was built, then a new manuscript was uploaded: its status is
\* 'uploaded' again while the built formats are still recorded and on disk
C29_Witness ==
    \E id \in DOMAIN projects :
        /\ projects[id].status = "uploaded"
        /\ projects[id].output_paths = {"html", "pdf", "epub"}
        /\ "pdf" \in FilesOf(id).output
        /\ response = Respond("upload", id, 200, "")

\* C30: an id that has left the project store never returns to it, also
\* while an analysis thread for it is still running or ends, and every
\* request for an id that is not in the store is answered with 404.
C30_DeletedStaysDeleted ==
    [][ /\ \A id \in 1..next_id : id \notin DOMAIN projects => id \notin DOMAIN projects'
        /\ ( response' # response /\ response'.request # "create"
             /\ response'.id \notin DOMAIN projects )
              => response'.code = 404
      ]_vars

\* the project was deleted while its analysis thread was running: the
\* thread is still there, ready to store its analysis, the id is not in the
\* store and a request for it got 404
C30_Witness ==
    /\ next_id >= 1
    /\ 1 \notin DOMAIN projects
    /\ ThreadsOf(1) # {}
    /\ response = Respond("get", 1, 404, "")

=============================================================================
